---- MODULE Spec2Model ----
(***************************************************************************)
(* Schema Catalog & Guarded Query Gateway of Agentarium.                    *)
(*                                                                         *)
(* The model follows src/src/postgres_db.py (PostgreSQLManager and its     *)
(* pydantic value objects) and the tool layer of src/src/mcp.py that calls *)
(* it (execute_select_query, get_sample_data, get_table_statistics).       *)
(*                                                                         *)
(* Texts (statements, table names, column names) are sequences of          *)
(* one-character strings, so that strip(), upper(), startswith() and the   *)
(* f-string interpolations are computed character by character.            *)
(* The database engine is the environment: it answers a statement with one *)
(* of the outcomes EngineOutcomes allows for that text.                    *)
(***************************************************************************)
EXTENDS Integers, Sequences, FiniteSets, TLC

(***************************************************************************)
(* Bounds of the model.                                                    *)
(***************************************************************************)
\* execution_time is time.time() - start_time; the model draws it from 0..MaxDuration
MaxDuration == 1

\* number of rows of the largest table of the catalog (above the ceiling of 20)
BigTableRows == 22

(***************************************************************************)
(* Python values.                                                          *)
(***************************************************************************)
\* an Optional field is <<>> when unset (None) and <<v>> when set to v
None == <<>>

Some(v) == <<v>>

Min(a, b) == IF a <= b THEN a ELSE b

Range(s) == {s[i] : i \in 1..Len(s)}

(***************************************************************************)
(* str methods used by the gate: strip(), upper(), startswith().           *)
(***************************************************************************)
\* characters str.strip() removes
Whitespace == {" ", "\t", "\n", "\r"}

LowerLetters ==
    <<"a","b","c","d","e","f","g","h","i","j","k","l","m",
      "n","o","p","q","r","s","t","u","v","w","x","y","z">>

UpperLetters ==
    <<"A","B","C","D","E","F","G","H","I","J","K","L","M",
      "N","O","P","Q","R","S","T","U","V","W","X","Y","Z">>

UpperChar(c) ==
    IF \E i \in 1..Len(LowerLetters) : LowerLetters[i] = c
    THEN UpperLetters[CHOOSE i \in 1..Len(LowerLetters) : LowerLetters[i] = c]
    ELSE c

\* str.upper()
Upper(s) == [i \in 1..Len(s) |-> UpperChar(s[i])]

RECURSIVE LStrip(_)
LStrip(s) ==
    IF s # <<>> /\ Head(s) \in Whitespace THEN LStrip(Tail(s)) ELSE s

RECURSIVE RStrip(_)
RStrip(s) ==
    IF s # <<>> /\ s[Len(s)] \in Whitespace
    THEN RStrip(SubSeq(s, 1, Len(s) - 1))
    ELSE s

\* str.strip()
Strip(s) == RStrip(LStrip(s))

\* str.startswith(prefix)
StartsWith(s, prefix) ==
    /\ Len(s) >= Len(prefix)
    /\ SubSeq(s, 1, Len(prefix)) = prefix

\* str(int): decimal digits, '-' in front of a negative number
Digits == <<"0","1","2","3","4","5","6","7","8","9">>

RECURSIVE NatStr(_)
NatStr(n) ==
    IF n < 10 THEN <<Digits[n + 1]>>
    ELSE NatStr(n \div 10) \o <<Digits[(n % 10) + 1]>>

Str(n) == IF n < 0 THEN <<"-">> \o NatStr(0 - n) ELSE NatStr(n)

(***************************************************************************)
(* Texts of the model: keywords, names and the statements callers submit.  *)
(***************************************************************************)
SP == <<" ">>

kwSELECT == <<"S","E","L","E","C","T">>
kwFROM   == <<"F","R","O","M">>
kwLIMIT  == <<"L","I","M","I","T">>
kwCOUNT  == <<"C","O","U","N","T","(","*",")">>
kwAS     == <<"a","s">>
STAR     == <<"*">>

n_id        == <<"i","d">>
n_name      == <<"n","a","m","e">>
n_row_count == <<"r","o","w","_","c","o","u","n","t">>
n_users     == <<"u","s","e","r","s">>
n_orders    == <<"o","r","d","e","r","s">>
n_logs      == <<"l","o","g","s">>
n_ghost     == <<"g","h","o","s","t">>
n_x         == <<"x">>

\* "users LIMIT 21 --": a caller-supplied table name that is no identifier
n_inject == n_users \o SP \o kwLIMIT \o SP \o <<"2","1">> \o SP \o <<"-","-">>

\* mcp.py:378
ePolicyViolation ==
    <<"O","n","l","y"," ","S","E","L","E","C","T"," ","q","u","e","r","i","e",
      "s"," ","a","r","e"," ","a","l","l","o","w","e","d"," ","f","o","r"," ",
      "s","e","c","u","r","i","t","y"," ","r","e","a","s","o","n","s">>

\* postgres_db.py:340
pSqlError ==
    <<"S","Q","L"," ","E","r","r","o","r",":"," ">>

\* postgres_db.py:346
pUnexpectedError ==
    <<"U","n","e","x","p","e","c","t","e","d"," ","e","r","r","o","r",":",
      " ">>

\* mcp.py:396, before the table name
sSuggestionHead ==
    <<"\n","\n","S","U","G","G","E","S","T","I","O","N",":"," ","T","h","e",
      " ","c","o","l","u","m","n"," ","n","a","m","e"," ","m","i","g","h","t",
      " ","b","e"," ","i","n","c","o","r","r","e","c","t","."," ","P","l","e",
      "a","s","e"," ","u","s","e"," ","g","e","t","_","t","a","b","l","e","_",
      "s","c","h","e","m","a","(","t","a","b","l","e","_","n","a","m","e","=",
      "'">>

\* mcp.py:396, after the table name
sSuggestionTail ==
    <<"'",")"," ","t","o"," ","c","h","e","c","k"," ","t","h","e"," ","e","x",
      "a","c","t"," ","c","o","l","u","m","n"," ","n","a","m","e","s"," ","a",
      "v","a","i","l","a","b","l","e"," ","i","n"," ","t","h","e"," ","t","a",
      "b","l","e",".">>

\* mcp.py:390
sColumn ==
    <<"c","o","l","u","m","n">>

\* mcp.py:390
sDoesNotExist ==
    <<"d","o","e","s"," ","n","o","t"," ","e","x","i","s","t">>

\* messages of the engine's errors
mConnectionRefused ==
    <<"c","o","n","n","e","c","t","i","o","n"," ","r","e","f","u","s","e",
      "d">>
mPoolClosed ==
    <<"c","o","n","n","e","c","t","i","o","n"," ","p","o","o","l"," ","i","s",
      " ","c","l","o","s","e","d">>
mSyntaxError ==
    <<"s","y","n","t","a","x"," ","e","r","r","o","r"," ","a","t"," ","o","r",
      " ","n","e","a","r"," ","\"","1","\"">>
mNoColumn ==
    <<"c","o","l","u","m","n"," ","\"","x","\""," ","d","o","e","s"," ","n",
      "o","t"," ","e","x","i","s","t">>
mNoRelation ==
    <<"r","e","l","a","t","i","o","n"," ","d","o","e","s"," ","n","o","t"," ",
      "e","x","i","s","t">>
mNegativeLimit ==
    <<"L","I","M","I","T"," ","m","u","s","t"," ","n","o","t"," ","b","e"," ",
      "n","e","g","a","t","i","v","e">>

\* statements submitted to execute_select_query
qSelectUsers ==
    <<"S","E","L","E","C","T"," ","*"," ","F","R","O","M"," ","u","s","e","r",
      "s">>
qSelectIdName ==
    <<"S","E","L","E","C","T"," ","i","d",","," ","n","a","m","e"," ","F","R",
      "O","M"," ","u","s","e","r","s"," ","L","I","M","I","T"," ","2">>
qLowerPadded ==
    <<" "," ","s","e","l","e","c","t"," ","*"," ","f","r","o","m"," ","o","r",
      "d","e","r","s"," ","l","i","m","i","t"," ","2"," ","\n">>
qDropTable ==
    <<"D","R","O","P"," ","T","A","B","L","E"," ","u","s","e","r","s">>
qWithCte ==
    <<"W","I","T","H"," ","x"," ","A","S"," ","(","S","E","L","E","C","T"," ",
      "1",")"," ","S","E","L","E","C","T"," ","*"," ","F","R","O","M"," ",
      "x">>
qEmpty == <<>>
qBlank ==
    <<" "," "," ">>
qTabbed ==
    <<"\n","\t","S","E","L","E","C","T"," ","1">>
qSelectInto ==
    <<"S","E","L","E","C","T"," ","*"," ","I","N","T","O"," ","b","a","k"," ",
      "F","R","O","M"," ","u","s","e","r","s">>
qTwoStatements ==
    <<"S","E","L","E","C","T"," ","1",";"," ","D","R","O","P"," ","T","A","B",
      "L","E"," ","u","s","e","r","s">>
qTruncated ==
    <<"S","E","L","E","C">>
qUnknownColumn ==
    <<"S","E","L","E","C","T"," ","x"," ","F","R","O","M"," ","u","s","e","r",
      "s">>
qUnknownColumnNoFrom ==
    <<"S","E","L","E","C","T"," ","x">>

\* postgres_db.py:353
tSelectStarFrom ==
    <<"S","E","L","E","C","T"," ","*"," ","F","R","O","M"," ">>

tLimit ==
    <<" ","L","I","M","I","T"," ">>

\* mcp.py:601
tSelectCountFrom ==
    <<"S","E","L","E","C","T"," ","C","O","U","N","T","(","*",")"," ","a","s",
      " ","r","o","w","_","c","o","u","n","t"," ","F","R","O","M"," ">>

n_user_id ==
    <<"u","s","e","r","_","i","d">>

n_users_pkey ==
    <<"u","s","e","r","s","_","p","k","e","y">>

\* a table name of whitespace only
n_blank == <<" ", " ">>

\* a column name with a leading blank (a quoted identifier)
n_sp_id == <<" ","i","d">>

n_links ==
    <<"l","i","n","k","s">>

n_notes ==
    <<"n","o","t","e","s">>

n_body ==
    <<"b","o","d","y">>

n_links_fk ==
    <<"l","i","n","k","s","_","f","k">>

n_links_idx ==
    <<"l","i","n","k","s","_","i","d","x">>

n_odd ==
    <<"o","d","d">>

\* a table name with a leading blank (a quoted identifier)
n_sp_logs ==
    <<" ","l","o","g","s">>

(***************************************************************************)
(* The database behind the engine: an unchanged catalog.  users has more   *)
(* rows than the sampling ceiling, logs has none, links has a two-column   *)
(* foreign key, notes has a key column whose name starts with a blank, odd *)
(* has a column whose name is a blank, one table has a name of blanks only *)
(* and one a name that starts with a blank.                                *)
(***************************************************************************)
TableRows(ncols, n) == [i \in 1..n |-> [j \in 1..ncols |-> 10 * i + j]]

\* one descriptor of inspector.get_columns
ColumnInfo(name, type, nullable, default) ==
    [name |-> name, type |-> type, nullable |-> nullable, default |-> default]

Catalog ==
    (n_users :>
        [columns_info |-> << ColumnInfo(n_id, "INTEGER", FALSE, Some("nextval")),
                             ColumnInfo(n_name, "VARCHAR", TRUE, None) >>,
         pk_constraint |-> <<n_id>>,
         fk_info |-> <<>>,
         indexes_info |-> << [name |-> n_users_pkey, column_names |-> <<n_id>>,
                              unique |-> TRUE] >>,
         rows |-> TableRows(2, BigTableRows)]) @@
    (n_orders :>
        [columns_info |-> << ColumnInfo(n_id, "INTEGER", FALSE, None),
                             ColumnInfo(n_user_id, "INTEGER", TRUE, None) >>,
         pk_constraint |-> <<n_id>>,
         fk_info |-> << [constrained_columns |-> <<n_user_id>>,
                         referred_table |-> n_users,
                         referred_columns |-> <<n_id>>,
                         name |-> None] >>,
         indexes_info |-> <<>>,
         rows |-> TableRows(2, 3)]) @@
    (n_logs :>
        [columns_info |-> << ColumnInfo(n_id, "INTEGER", TRUE, None),
                             ColumnInfo(n_name, "TEXT", TRUE, None) >>,
         pk_constraint |-> <<>>,
         fk_info |-> <<>>,
         indexes_info |-> <<>>,
         rows |-> TableRows(2, 0)]) @@
    (n_links :>
        [columns_info |-> << ColumnInfo(n_user_id, "INTEGER", FALSE, None),
                             ColumnInfo(n_name, "VARCHAR", FALSE, None) >>,
         pk_constraint |-> <<>>,
         fk_info |-> << [constrained_columns |-> <<n_user_id, n_name>>,
                         referred_table |-> n_users,
                         referred_columns |-> <<n_id, n_name>>,
                         name |-> Some(n_links_fk)] >>,
         indexes_info |-> << [name |-> n_links_idx,
                              column_names |-> <<n_user_id, n_name>>,
                              unique |-> FALSE] >>,
         rows |-> TableRows(2, 1)]) @@
    (n_notes :>
        [columns_info |-> << ColumnInfo(n_sp_id, "INTEGER", FALSE, None),
                             ColumnInfo(n_body, "TEXT", TRUE, None) >>,
         pk_constraint |-> <<n_sp_id>>,
         fk_info |-> <<>>,
         indexes_info |-> <<>>,
         rows |-> TableRows(2, 1)]) @@
    (n_blank :>
        [columns_info |-> << ColumnInfo(n_id, "INTEGER", TRUE, None) >>,
         pk_constraint |-> <<>>,
         fk_info |-> <<>>,
         indexes_info |-> <<>>,
         rows |-> TableRows(1, 1)]) @@
    (n_odd :>
        [columns_info |-> << ColumnInfo(n_id, "INTEGER", FALSE, None),
                             ColumnInfo(n_blank, "TEXT", TRUE, None) >>,
         pk_constraint |-> <<n_id>>,
         fk_info |-> <<>>,
         indexes_info |-> << [name |-> n_links_idx, column_names |-> <<n_id>>,
                              unique |-> TRUE] >>,
         rows |-> TableRows(2, 1)]) @@
    (n_sp_logs :>
        [columns_info |-> << ColumnInfo(n_id, "INTEGER", TRUE, None) >>,
         pk_constraint |-> <<>>,
         fk_info |-> <<>>,
         indexes_info |-> <<>>,
         rows |-> TableRows(1, 1)])

\* the column keys of a table's rows
ColumnNames(t) == [i \in 1..Len(t.columns_info) |-> t.columns_info[i].name]

(***************************************************************************)
(* The engine's reading of a statement: words separated by whitespace, a   *)
(* "--" comment running to the end of the text.                            *)
(***************************************************************************)
\* index of the first whitespace character of s, Len(s) + 1 when there is none
WordEnd(s) ==
    IF \E i \in 1..Len(s) : s[i] \in Whitespace
    THEN CHOOSE i \in 1..Len(s) :
            /\ s[i] \in Whitespace
            /\ \A j \in 1..(i - 1) : s[j] \notin Whitespace
    ELSE Len(s) + 1

RECURSIVE Words(_)
Words(s) ==
    LET t == LStrip(s) IN
    IF t = <<>> \/ StartsWith(t, <<"-","-">>) THEN <<>>
    ELSE <<SubSeq(t, 1, WordEnd(t) - 1)>> \o Words(SubSeq(t, WordEnd(t), Len(t)))

IsNatLiteral(w) == w # <<>> /\ \A i \in 1..Len(w) : w[i] \in Range(Digits)

IsIntLiteral(w) ==
    \/ IsNatLiteral(w)
    \/ w # <<>> /\ Head(w) = "-" /\ IsNatLiteral(Tail(w))

DigitValue(c) == (CHOOSE i \in 1..10 : Digits[i] = c) - 1

RECURSIVE NatValue(_)
NatValue(w) ==
    IF w = <<>> THEN 0
    ELSE 10 * NatValue(SubSeq(w, 1, Len(w) - 1)) + DigitValue(w[Len(w)])

IntValue(w) == IF Head(w) = "-" THEN 0 - NatValue(Tail(w)) ELSE NatValue(w)

\* SELECT * FROM <table> [LIMIT <n>]
IsSelectStar(w) ==
    /\ Len(w) \in {4, 6}
    /\ Upper(w[1]) = kwSELECT
    /\ w[2] = STAR
    /\ Upper(w[3]) = kwFROM
    /\ Len(w) = 6 => (Upper(w[5]) = kwLIMIT /\ IsIntLiteral(w[6]))

\* SELECT COUNT(*) as row_count FROM <table>
IsSelectCount(w) ==
    /\ Len(w) = 6
    /\ Upper(w[1]) = kwSELECT
    /\ Upper(w[2]) = kwCOUNT
    /\ Upper(w[3]) = Upper(kwAS)
    /\ w[4] = n_row_count
    /\ Upper(w[5]) = kwFROM

(***************************************************************************)
(* What the engine can answer.  A result that returns rows carries the     *)
(* column keys and the row tuples; one that returns none carries rowcount. *)
(* SQLAlchemyError and any other Exception are the two failure kinds the   *)
(* gateway tells apart.                                                    *)
(***************************************************************************)
RowsOutcome(keys, rows) == [kind |-> "rows", keys |-> keys, rows |-> rows]

NoRowsOutcome(rowcount) == [kind |-> "norows", rowcount |-> rowcount]

SqlError(msg) == [kind |-> "sqlerror", msg |-> msg]

OtherError(msg) == [kind |-> "exception", msg |-> msg]

\* failures any dispatch can meet, whatever the statement
TransportFailures ==
    { SqlError(mConnectionRefused), OtherError(mPoolClosed) }

\* answers to statements the model does not interpret
GenericOutcomes ==
    { RowsOutcome(<<n_id, n_name>>, TableRows(2, 2)),
      RowsOutcome(<<n_id, n_id>>, TableRows(2, 1)),
      RowsOutcome(<<n_x>>, TableRows(1, 0)),
      NoRowsOutcome(3),
      NoRowsOutcome(0 - 1),
      SqlError(mSyntaxError),
      SqlError(mNoColumn) }

SelectStarOutcomes(w) ==
    IF w[4] \notin DOMAIN Catalog THEN { SqlError(mNoRelation) }
    ELSE IF Len(w) = 6 /\ IntValue(w[6]) < 0 THEN { SqlError(mNegativeLimit) }
    ELSE LET t == Catalog[w[4]]
             n == IF Len(w) = 6 THEN Min(IntValue(w[6]), Len(t.rows)) ELSE Len(t.rows)
         IN  { RowsOutcome(ColumnNames(t), SubSeq(t.rows, 1, n)) }

SelectCountOutcomes(w) ==
    IF w[6] \notin DOMAIN Catalog THEN { SqlError(mNoRelation) }
    ELSE { RowsOutcome(<<n_row_count>>, <<<<Len(Catalog[w[6]].rows)>>>>) }

\* SELECT * FROM followed by anything but <table> [LIMIT <n>]
IsMalformedSelectStar(w) ==
    /\ Len(w) >= 3
    /\ Upper(w[1]) = kwSELECT
    /\ w[2] = STAR
    /\ Upper(w[3]) = kwFROM
    /\ ~IsSelectStar(w)

EngineOutcomes(stmt) ==
    LET w == Words(stmt) IN
    TransportFailures \cup
        ( IF IsSelectStar(w) THEN SelectStarOutcomes(w)
          ELSE IF IsMalformedSelectStar(w) THEN { SqlError(mSyntaxError) }
          ELSE IF IsSelectCount(w) THEN SelectCountOutcomes(w)
          ELSE GenericOutcomes )

(***************************************************************************)
(* QueryResult and the Query Gateway, PostgreSQLManager.execute_query.     *)
(***************************************************************************)
\* dict(zip(columns, row)): one entry per distinct key, the last value wins
DictZip(keys, row) ==
    LET n == Min(Len(keys), Len(row)) IN
    [k \in {keys[i] : i \in 1..n} |->
        row[CHOOSE i \in 1..n : keys[i] = k /\ \A j \in (i + 1)..n : keys[j] # k]]

QueryResult(success, data, error, rows_affected, execution_time, columns) ==
    [success |-> success, data |-> data, error |-> error,
     rows_affected |-> rows_affected, execution_time |-> execution_time,
     columns |-> columns]


\* mutant of EngineText: the gate's trimmed text is what reaches the engine
EngineText_stripped(query) == Strip(query)

\* the statement text handed to conn.execute(text(query))
EngineText(query) == query

\* the statements one call of execute_query hands to the engine
EngineDispatch(query) == <<EngineText(query)>>


\* mutant of execute_query: fetchall() replaced by a fetch that drops the last row
PostgreSQLManager_execute_query_short(o, d) ==
    CASE o.kind = "rows" ->
            QueryResult(TRUE,
                        Some([i \in 1..(Len(o.rows) - 1) |-> DictZip(o.keys, o.rows[i])]),
                        None, None, Some(d), Some(o.keys))
      [] o.kind = "norows" ->
            QueryResult(TRUE, None, None, Some(o.rowcount), Some(d), None)
      [] o.kind = "sqlerror" ->
            QueryResult(FALSE, None, Some(pSqlError \o o.msg), None, Some(d), None)
      [] o.kind = "exception" ->
            QueryResult(FALSE, None, Some(pUnexpectedError \o o.msg), None, Some(d), None)

\* mutant of execute_query: rows_affected=result.rowcount also set when rows return
PostgreSQLManager_execute_query_rowcount(o, d) ==
    CASE o.kind = "rows" ->
            QueryResult(TRUE,
                        Some([i \in 1..Len(o.rows) |-> DictZip(o.keys, o.rows[i])]),
                        None, Some(Len(o.rows)), Some(d), Some(o.keys))
      [] o.kind = "norows" ->
            QueryResult(TRUE, None, None, Some(o.rowcount), Some(d), None)
      [] o.kind = "sqlerror" ->
            QueryResult(FALSE, None, Some(pSqlError \o o.msg), None, Some(d), None)
      [] o.kind = "exception" ->
            QueryResult(FALSE, None, Some(pUnexpectedError \o o.msg), None, Some(d), None)

\* mutant of execute_query: the generic except branch leaves execution_time out
PostgreSQLManager_execute_query_notime(o, d) ==
    CASE o.kind = "rows" ->
            QueryResult(TRUE,
                        Some([i \in 1..Len(o.rows) |-> DictZip(o.keys, o.rows[i])]),
                        None, None, Some(d), Some(o.keys))
      [] o.kind = "norows" ->
            QueryResult(TRUE, None, None, Some(o.rowcount), Some(d), None)
      [] o.kind = "sqlerror" ->
            QueryResult(FALSE, None, Some(pSqlError \o o.msg), None, Some(d), None)
      [] o.kind = "exception" ->
            QueryResult(FALSE, None, Some(pUnexpectedError \o o.msg), None, None, None)

\* the QueryResult built from the engine's answer o after d seconds
PostgreSQLManager_execute_query(o, d) ==
    CASE o.kind = "rows" ->
            QueryResult(TRUE,
                        Some([i \in 1..Len(o.rows) |-> DictZip(o.keys, o.rows[i])]),
                        None, None, Some(d), Some(o.keys))
      [] o.kind = "norows" ->
            QueryResult(TRUE, None, None, Some(o.rowcount), Some(d), None)
      [] o.kind = "sqlerror" ->
            QueryResult(FALSE, None, Some(pSqlError \o o.msg), None, Some(d), None)
      [] o.kind = "exception" ->
            QueryResult(FALSE, None, Some(pUnexpectedError \o o.msg), None, Some(d), None)

(***************************************************************************)
(* The tool execute_select_query of mcp.py: the SELECT-only gate, the      *)
(* gateway call and the advisory suggestion on an unknown column.          *)
(* A tool's value is its response object; get_formatted_response(), which  *)
(* renders that object as text for the caller, is presentation and is not  *)
(* part of the model.                                                      *)
(***************************************************************************)

\* mutant of PassesGate: 'SELECT' in sql_query.strip().upper()
PassesGate_contains(sql_query) ==
    \E i \in 1..(Len(Upper(Strip(sql_query))) - 5) :
        SubSeq(Upper(Strip(sql_query)), i, i + 5) = kwSELECT

\* mutant of PassesGate: the safety check is gone
PassesGate_absent(sql_query) == TRUE

\* sql_query.strip().upper().startswith('SELECT')
PassesGate(sql_query) == StartsWith(Upper(Strip(sql_query)), kwSELECT)

LowerChar(c) ==
    IF \E i \in 1..Len(UpperLetters) : UpperLetters[i] = c
    THEN LowerLetters[CHOOSE i \in 1..Len(UpperLetters) : UpperLetters[i] = c]
    ELSE c

\* str.lower()
Lower(s) == [i \in 1..Len(s) |-> LowerChar(s[i])]

\* sub in s
Contains(s, sub) ==
    \E i \in 1..(Len(s) - Len(sub) + 1) : SubSeq(s, i, i + Len(sub) - 1) = sub

\* the characters \w matches
WordChars == Range(LowerLetters) \cup Range(UpperLetters) \cup Range(Digits) \cup {"_"}

\* index of the first character of s at or after i that is no whitespace
SkipSpace(s, i) ==
    IF \E j \in i..Len(s) : s[j] \notin Whitespace
    THEN CHOOSE j \in i..Len(s) :
            s[j] \notin Whitespace /\ \A k \in i..(j - 1) : s[k] \in Whitespace
    ELSE Len(s) + 1

\* index of the last character of the run of word characters starting at i
WordRunEnd(s, i) ==
    CHOOSE j \in i..Len(s) :
        /\ \A k \in i..j : s[k] \in WordChars
        /\ j = Len(s) \/ s[j + 1] \notin WordChars

\* the positions where FROM\s+(\w+) matches, case ignored
FromMatches(s) ==
    { i \in 1..Len(s) :
        /\ i + 4 <= Len(s)
        /\ Upper(SubSeq(s, i, i + 3)) = kwFROM
        /\ s[i + 4] \in Whitespace
        /\ SkipSpace(s, i + 4) <= Len(s)
        /\ s[SkipSpace(s, i + 4)] \in WordChars }

\* re.search(r'FROM\s+(\w+)', sql_query, re.IGNORECASE): group 1 of the leftmost match
TableMatch(sql_query) ==
    IF FromMatches(sql_query) = {} THEN None
    ELSE LET i == CHOOSE m \in FromMatches(sql_query) :
                      \A m2 \in FromMatches(sql_query) : m <= m2
             j == SkipSpace(sql_query, i + 4)
         IN  Some(SubSeq(sql_query, j, WordRunEnd(sql_query, j)))

\* mutant of Suggestions: the error text is not looked at
Suggestions_anyError(sql_query, error_msg) ==
    IF TableMatch(sql_query) # None
    THEN sSuggestionHead \o TableMatch(sql_query)[1] \o sSuggestionTail
    ELSE <<>>

Suggestions(sql_query, error_msg) ==
    IF /\ Contains(Lower(error_msg), sColumn)
       /\ Contains(Lower(error_msg), sDoesNotExist)
       /\ TableMatch(sql_query) # None
    THEN sSuggestionHead \o TableMatch(sql_query)[1] \o sSuggestionTail
    ELSE <<>>

QueryExecutionResponse(success, query, result, error) ==
    [success |-> success, query |-> query, result |-> result, error |-> error]

\* the response built once the gateway has answered with result
ExecutionResponse(sql_query, result) ==
    IF ~result.success
    THEN QueryExecutionResponse(FALSE, sql_query, None,
             Some(result.error[1] \o Suggestions(sql_query, result.error[1])))
    ELSE QueryExecutionResponse(TRUE, sql_query, Some(result), None)

\* the response of the gate to a statement it rejects
PolicyViolationResponse(sql_query) ==
    QueryExecutionResponse(FALSE, sql_query, None, Some(ePolicyViolation))

(***************************************************************************)
(* SampleData and the sampler: PostgreSQLManager.get_sample_data and the   *)
(* tool get_sample_data of mcp.py that clamps the limit.                   *)
(***************************************************************************)
\* the hard ceiling of the tool's limit
MaxSampleRows == 20

SampleData(table_name, rows, total_rows_sampled, columns) ==
    [table_name |-> table_name, rows |-> rows,
     total_rows_sampled |-> total_rows_sampled, columns |-> columns]

\* truth value of an Optional list: set and not empty
Truthy(opt) == opt # None /\ Len(opt[1]) > 0


\* mutant of SafeLimit: the caller's limit is passed on unclamped
SafeLimit_unclamped(limit) == limit

\* safe_limit = min(limit, 20)
SafeLimit(limit) == Min(limit, MaxSampleRows)

\* f"SELECT * FROM {table_name} LIMIT {limit}"
SampleQuery(table_name, limit) == tSelectStarFrom \o table_name \o tLimit \o Str(limit)


\* mutant of get_sample_data: total_rows_sampled left at its default
PostgreSQLManager_get_sample_data_nocount(table_name, result) ==
    IF result.success /\ Truthy(result.data)
    THEN SampleData(table_name, result.data[1], 0,
                    IF Truthy(result.columns) THEN result.columns[1] ELSE <<>>)
    ELSE SampleData(table_name, <<>>, 0, <<>>)

\* mutant of get_sample_data: the failure path names the query, not the table
PostgreSQLManager_get_sample_data_misnamed(table_name, result) ==
    IF result.success /\ Truthy(result.data)
    THEN SampleData(table_name, result.data[1], Len(result.data[1]),
                    IF Truthy(result.columns) THEN result.columns[1] ELSE <<>>)
    ELSE SampleData(tSelectStarFrom \o table_name, <<>>, 0, <<>>)

\* the SampleData built from the gateway's result
PostgreSQLManager_get_sample_data(table_name, result) ==
    IF result.success /\ Truthy(result.data)
    THEN SampleData(table_name, result.data[1], Len(result.data[1]),
                    IF Truthy(result.columns) THEN result.columns[1] ELSE <<>>)
    ELSE SampleData(table_name, <<>>, 0, <<>>)

SampleDataResponse(success, table_name, sample_data, error) ==
    [success |-> success, table_name |-> table_name,
     sample_data |-> sample_data, error |-> error]

(***************************************************************************)
(* Schema introspection: PostgreSQLManager.get_table_schema.  A pydantic   *)
(* constructor either returns its object or raises on a failed validator.  *)
(***************************************************************************)
Ok(v) == [ok |-> TRUE, val |-> v]

Raised == [ok |-> FALSE]

\* DatabaseColumn(...) with validate_name
DatabaseColumn(name, type, nullable, default) ==
    IF Strip(name) = <<>> THEN Raised
    ELSE Ok([name |-> Strip(name), type |-> type, nullable |-> nullable,
             default |-> default, primary_key |-> FALSE, foreign_key |-> None])

\* mutant of ForeignKey: only the first referred column is kept
ForeignKey_firstReferred(fk) ==
    [constrained_columns |-> fk.constrained_columns,
     referred_table |-> fk.referred_table,
     referred_columns |-> SubSeq(fk.referred_columns, 1, 1),
     name |-> fk.name]

\* mutant of ForeignKey: the referred columns are taken in reverse order
ForeignKey_reversed(fk) ==
    [constrained_columns |-> fk.constrained_columns,
     referred_table |-> fk.referred_table,
     referred_columns |-> [i \in 1..Len(fk.referred_columns) |->
                             fk.referred_columns[Len(fk.referred_columns) + 1 - i]],
     name |-> fk.name]

ForeignKey(fk) ==
    [constrained_columns |-> fk.constrained_columns,
     referred_table |-> fk.referred_table,
     referred_columns |-> fk.referred_columns,
     name |-> fk.name]

TableIndex(idx) ==
    [name |-> idx.name, columns |-> idx.column_names, unique |-> idx.unique]

\* TableSchema(...) with validate_table_name
TableSchema(table_name, columns, primary_keys, foreign_keys, indexes) ==
    IF Strip(table_name) = <<>> THEN Raised
    ELSE Ok([table_name |-> Strip(table_name), columns |-> columns,
             primary_keys |-> primary_keys, foreign_keys |-> foreign_keys,
             indexes |-> indexes, row_count |-> None])

\* what the inspector answers for table_name: the catalog's metadata, with
\* fail_at = k > 0 when the k-th of its four fetches raises
InspectorAnswers(table_name) ==
    IF table_name \in DOMAIN Catalog
    THEN { [fail_at |-> k,
            columns_info |-> Catalog[table_name].columns_info,
            pk_constraint |-> Catalog[table_name].pk_constraint,
            fk_info |-> Catalog[table_name].fk_info,
            indexes_info |-> Catalog[table_name].indexes_info] : k \in 0..4 }
    ELSE { [fail_at |-> k, columns_info |-> <<>>, pk_constraint |-> <<>>,
            fk_info |-> <<>>, indexes_info |-> <<>>] : k \in 0..1 }

\* mutant of PostgreSQLManager_get_table_schema: what was fetched before the
\* failure is kept
PostgreSQLManager_get_table_schema_partial(table_name, ins) ==
    LET done == IF ins.fail_at = 0 THEN 4 ELSE ins.fail_at - 1
        built == [i \in 1..Len(ins.columns_info) |->
                    DatabaseColumn(ins.columns_info[i].name,
                                   ins.columns_info[i].type,
                                   ins.columns_info[i].nullable,
                                   ins.columns_info[i].default)]
        kept == SelectSeq(built, LAMBDA b : b.ok)
        primary_keys == IF done >= 2 THEN ins.pk_constraint ELSE <<>>
        columns == IF done >= 1
                   THEN [i \in 1..Len(kept) |->
                           [kept[i].val EXCEPT !.primary_key =
                                 kept[i].val.name \in Range(primary_keys)]]
                   ELSE <<>>
        foreign_keys == IF done >= 3
                        THEN [i \in 1..Len(ins.fk_info) |-> ForeignKey(ins.fk_info[i])]
                        ELSE <<>>
        indexes == IF done >= 4
                   THEN [i \in 1..Len(ins.indexes_info) |-> TableIndex(ins.indexes_info[i])]
                   ELSE <<>>
    IN  TableSchema(table_name, columns, primary_keys, foreign_keys, indexes)

PostgreSQLManager_get_table_schema(table_name, ins) ==
    LET built == [i \in 1..Len(ins.columns_info) |->
                    DatabaseColumn(ins.columns_info[i].name,
                                   ins.columns_info[i].type,
                                   ins.columns_info[i].nullable,
                                   ins.columns_info[i].default)]
        primary_keys == ins.pk_constraint
        columns == [i \in 1..Len(built) |->
                      [built[i].val EXCEPT !.primary_key =
                            built[i].val.name \in Range(primary_keys)]]
        foreign_keys == [i \in 1..Len(ins.fk_info) |-> ForeignKey(ins.fk_info[i])]
        indexes == [i \in 1..Len(ins.indexes_info) |-> TableIndex(ins.indexes_info[i])]
        tried == IF ins.fail_at = 0 /\ \A i \in 1..Len(built) : built[i].ok
                 THEN TableSchema(table_name, columns, primary_keys, foreign_keys, indexes)
                 ELSE Raised
    IN  IF tried.ok THEN tried
        ELSE TableSchema(table_name, <<>>, <<>>, <<>>, <<>>)

(***************************************************************************)
(* The tool get_table_statistics of mcp.py.                                *)
(***************************************************************************)
\* f"SELECT COUNT(*) as row_count FROM {table_name}"
CountQuery(table_name) == tSelectCountFrom \o table_name

\* the row-count line of the report: the total, "Unable to determine", or no line
RowCountLine(count_result) ==
    IF count_result.success /\ Truthy(count_result.data)
    THEN IF n_row_count \in DOMAIN count_result.data[1][1]
         THEN [total |-> Some(count_result.data[1][1][n_row_count]), unable |-> FALSE]
         ELSE [total |-> None, unable |-> TRUE]
    ELSE [total |-> None, unable |-> FALSE]

StatisticsReport(schema, row_line) ==
    [kind |-> "statistics",
     column_count |-> Len(schema.columns),
     primary_keys |-> Len(schema.primary_keys),
     foreign_keys |-> Len(schema.foreign_keys),
     indexes |-> Len(schema.indexes),
     row_line |-> row_line,
     columns |-> schema.columns]

(***************************************************************************)
(* The Schema Catalog Builder: PostgreSQLManager.list_tables and           *)
(* get_database_schema, and the tools list_tables, get_table_schema and    *)
(* get_database_overview of mcp.py that call the manager and turn a raised *)
(* exception into a failure response.                                      *)
(***************************************************************************)
\* postgres_db.py:79, the message of the exception a blank table name raises
eTableNameEmpty ==
    <<"T","a","b","l","e"," ","n","a","m","e"," ","c","a","n","n","o","t"," ",
      "b","e"," ","e","m","p","t","y">>

\* ConnectionConfig.database: POSTGRES_DB, by default "postgres"
config_database ==
    <<"p","o","s","t","g","r","e","s">>

\* what inspector.get_table_names() can report, in the engine's order
Listings ==
    { <<>>,
      <<n_users, n_orders, n_logs>>,
      <<n_links, n_notes>>,
      <<n_users, n_users>>,
      <<n_orders, n_blank>>,
      <<n_sp_logs, n_users>> }

\* the answer to get_table_names(): a listing, or fail = TRUE when it raises
TableListAnswers ==
    { [fail |-> TRUE, tables |-> <<>>] } \cup
    { [fail |-> FALSE, tables |-> l] : l \in Listings }

\* the answer of the inspector for table_name whose fail_at is k
InspectorAnswer(table_name, k) ==
    CHOOSE a \in InspectorAnswers(table_name) : a.fail_at = k

\* mutant of list_tables: no except branch, the inspector's error propagates
PostgreSQLManager_list_tables_raising(ans) ==
    IF ans.fail THEN Raised ELSE Ok(ans.tables)

PostgreSQLManager_list_tables(ans) ==
    IF ans.fail THEN Ok(<<>>) ELSE Ok(ans.tables)

DatabaseSchema(database_name, tables, total_tables) ==
    [database_name |-> database_name, tables |-> tables, total_tables |-> total_tables]

\* index of the last occurrence of name in the list tables
LastIndex(tables, name) ==
    CHOOSE i \in 1..Len(tables) :
        tables[i] = name /\ \A j \in (i + 1)..Len(tables) : tables[j] # name

\* listed is what list_tables returned, inss[i] the inspector's answer for the
\* i-th table; schema.tables[table] = table_schema keeps the last schema of a name
PostgreSQLManager_get_database_schema(listed, inss) ==
    IF ~listed.ok THEN Raised
    ELSE LET tables == listed.val
             schemas == [i \in 1..Len(tables) |->
                            PostgreSQLManager_get_table_schema(tables[i], inss[i])]
         IN  IF \E i \in 1..Len(tables) : ~schemas[i].ok THEN Raised
             ELSE Ok(DatabaseSchema(config_database,
                        [k \in Range(tables) |-> schemas[LastIndex(tables, k)].val],
                        Len(tables)))

TableListResponse(success, tables, total_count, error) ==
    [success |-> success, tables |-> tables, total_count |-> total_count,
     error |-> error]

TableSchemaResponse(success, table_name, table_schema, error) ==
    [success |-> success, table_name |-> table_name,
     table_schema |-> table_schema, error |-> error]

DatabaseOverviewResponse(success, database_name, db_schema, error) ==
    [success |-> success, database_name |-> database_name,
     db_schema |-> db_schema, error |-> error]

\* mcp.py list_tables: the response to what the manager returned or raised
ListTablesResponse(listed) ==
    IF listed.ok
    THEN TableListResponse(TRUE, listed.val, Len(listed.val), None)
    ELSE TableListResponse(FALSE, <<>>, 0, Some(mConnectionRefused))

\* mcp.py get_table_schema: the response to what the manager returned or raised
SchemaResponse(table_name, schema) ==
    IF schema.ok
    THEN TableSchemaResponse(TRUE, table_name, Some(schema.val), None)
    ELSE TableSchemaResponse(FALSE, table_name, None, Some(eTableNameEmpty))

\* mcp.py get_database_overview: the response to what the manager returned or raised
OverviewResponse(db_schema) ==
    IF db_schema.ok
    THEN DatabaseOverviewResponse(TRUE, db_schema.val.database_name,
                                  Some(db_schema.val), None)
    ELSE DatabaseOverviewResponse(FALSE, <<"u","n","k","n","o","w","n">>, None,
                                  Some(eTableNameEmpty))

(***************************************************************************)
(* PostgreSQLManager.list_databases: a side connection to the database     *)
(* postgres, one statement over pg_database, the first field of each row.  *)
(***************************************************************************)
n_datname == <<"d","a","t","n","a","m","e">>
n_pg_database == <<"p","g","_","d","a","t","a","b","a","s","e">>
n_datistemplate == <<"d","a","t","i","s","t","e","m","p","l","a","t","e">>
n_false == <<"f","a","l","s","e">>
kwWHERE == <<"W","H","E","R","E">>
kwORDER == <<"O","R","D","E","R">>
kwBY == <<"B","Y">>
EQ == <<"=">>
d_postgres == <<"p","o","s","t","g","r","e","s">>
d_template0 == <<"t","e","m","p","l","a","t","e","0">>
d_template1 == <<"t","e","m","p","l","a","t","e","1">>
d_shop == <<"s","h","o","p">>
d_shop2 == <<"s","h","o","p","2">>
d_analytics == <<"a","n","a","l","y","t","i","c","s">>
d_Zeta == <<"Z","e","t","a">>

\* mutant of qListDatabases: the statement without its ORDER BY
qListDatabases_unordered ==
    <<"\n"," ","S","E","L","E","C","T"," ","d","a","t","n","a","m","e"," ",
      "F","R","O","M"," ","p","g","_","d","a","t","a","b","a","s","e"," ",
      "\n"," ","W","H","E","R","E"," ","d","a","t","i","s","t","e","m","p",
      "l","a","t","e"," ","="," ","f","a","l","s","e"," ","\n"," ">>

\* the statement list_databases sends, with the line breaks of the source
qListDatabases ==
    <<"\n"," ","S","E","L","E","C","T"," ","d","a","t","n","a","m","e"," ",
      "F","R","O","M"," ","p","g","_","d","a","t","a","b","a","s","e"," ",
      "\n"," ","W","H","E","R","E"," ","d","a","t","i","s","t","e","m","p",
      "l","a","t","e"," ","="," ","f","a","l","s","e"," ","\n"," ","O","R",
      "D","E","R"," ","B","Y"," ","d","a","t","n","a","m","e","\n"," ">>

\* the rows of pg_database in the order the server stores them
pg_database ==
    << [datname |-> d_template1, datistemplate |-> TRUE],
       [datname |-> d_template0, datistemplate |-> TRUE],
       [datname |-> d_shop2,     datistemplate |-> FALSE],
       [datname |-> d_postgres,  datistemplate |-> FALSE],
       [datname |-> d_shop,      datistemplate |-> FALSE],
       [datname |-> d_Zeta,      datistemplate |-> FALSE],
       [datname |-> d_analytics, datistemplate |-> FALSE] >>

\* the characters of database names in code point order, the order of the
\* type name of datname
Alphabet == Digits \o UpperLetters \o <<"_">> \o LowerLetters

CharRank(c) == CHOOSE i \in 1..Len(Alphabet) : Alphabet[i] = c

\* a sorts strictly before b, character by character, a proper prefix first
TextLess(a, b) ==
    \E i \in 1..(Min(Len(a), Len(b)) + 1) :
        /\ \A j \in 1..(i - 1) : a[j] = b[j]
        /\ \/ i > Len(a) /\ i <= Len(b)
           \/ i <= Len(a) /\ i <= Len(b) /\ CharRank(a[i]) < CharRank(b[i])

\* row put into rows, which are sorted by their first field
RECURSIVE InsertRow(_, _)
InsertRow(row, rows) ==
    IF rows = <<>> THEN <<row>>
    ELSE IF TextLess(row[1], rows[1][1]) THEN <<row>> \o rows
    ELSE <<rows[1]>> \o InsertRow(row, Tail(rows))

\* ORDER BY the first field
RECURSIVE OrderRows(_)
OrderRows(rows) ==
    IF rows = <<>> THEN <<>> ELSE InsertRow(rows[1], OrderRows(Tail(rows)))

\* SELECT datname FROM pg_database ...
IsSelectDatname(w) ==
    /\ Len(w) >= 4
    /\ Upper(w[1]) = kwSELECT
    /\ w[2] = n_datname
    /\ Upper(w[3]) = kwFROM
    /\ w[4] = n_pg_database

\* ... WHERE datistemplate = false
HasTemplateFilter(w) ==
    /\ Len(w) >= 8
    /\ Upper(w[5]) = kwWHERE
    /\ w[6] = n_datistemplate
    /\ w[7] = EQ
    /\ w[8] = n_false

\* ... ORDER BY datname
HasOrderByDatname(w) ==
    /\ Len(w) >= 7
    /\ Upper(w[Len(w) - 2]) = kwORDER
    /\ Upper(w[Len(w) - 1]) = kwBY
    /\ w[Len(w)] = n_datname

IsDatabaseRow(d) == ~d.datistemplate

\* what the server answers to a statement over pg_database
SelectDatnameOutcomes(w) ==
    LET kept == IF HasTemplateFilter(w)
                THEN SelectSeq(pg_database, IsDatabaseRow)
                ELSE pg_database
        rows == [i \in 1..Len(kept) |-> <<kept[i].datname>>]
    IN  { RowsOutcome(<<n_datname>>,
                      IF HasOrderByDatname(w) THEN OrderRows(rows) ELSE rows) }

\* what the side connection can do: it is refused before any statement is
\* sent, or the statement is sent and answered or fails
SideConnectionOutcomes(stmt) ==
    LET w == Words(stmt) IN
    { [connected |-> FALSE, outcome |-> OtherError(mConnectionRefused)] }
    \cup { [connected |-> TRUE, outcome |-> o] :
             o \in IF IsSelectDatname(w)
                   THEN TransportFailures \cup SelectDatnameOutcomes(w)
                   ELSE EngineOutcomes(stmt) }

\* PostgreSQLManager.list_databases on the outcome o of its side connection
PostgreSQLManager_list_databases(o) ==
    IF o.kind = "rows"
    THEN Ok([i \in 1..Len(o.rows) |-> o.rows[i][1]])
    ELSE Ok(<<>>)

(***************************************************************************)
(* State: the tool call being served, what it handed to the engine, what   *)
(* the engine answered, the gateway's QueryResult and the value the tool   *)
(* returns.  All of it is request-scoped: it is dropped when the tool has  *)
(* returned, and the next call starts from nothing.                        *)
(***************************************************************************)
VARIABLES
    op,          \* name of the tool being served, "idle" between calls
    arg,         \* its arguments
    dispatched,  \* the statement texts it handed to the engine, in order
    outcomes,    \* the engine's answer to each of them
    result,      \* the QueryResult of execute_query, None when it was not called
    ret,         \* the object the tool returned
    environ,     \* os.environ: POSTGRES_PORT and POSTGRES_DB
    life,        \* "unbuilt", "configured", "open", "closed", or "failed"
    closes,      \* how many times close() has been called
    heap,        \* the ConnectionConfig objects; self.config is heap[1]
    conns,       \* the connections of self.engine's pool
    leaked,      \* engines of list_databases that hold an open connection
    catalog,     \* the live tables of the database and their column counts
    calls        \* per caller, the manager method it is in and its locals

vars == <<op, arg, dispatched, outcomes, result, ret>>

mvars == <<environ, life, closes, heap, conns, leaked, catalog, calls>>

allvars == <<vars, mvars>>

Statements ==
    { qSelectUsers, qSelectIdName, qLowerPadded, qDropTable, qWithCte, qEmpty,
      qBlank, qTabbed, qSelectInto, qTwoStatements, qTruncated, qUnknownColumn,
      qUnknownColumnNoFrom }

TableNames == { n_users, n_orders, n_logs, n_ghost, n_inject, n_blank }

\* limits callers pass to get_sample_data: negative, zero, below, at and above the ceiling
Limits == { 0 - 1, 0, 2, 20, 21, 1000 }

Durations == 0..MaxDuration

Args(sql_query, table_name, limit) ==
    [sql_query |-> sql_query, table_name |-> table_name, limit |-> limit]

Init ==
    /\ op = "idle"
    /\ arg = Args(<<>>, <<>>, 0)
    /\ dispatched = <<>>
    /\ outcomes = <<>>
    /\ result = None
    /\ ret = None

\* mcp.py execute_select_query: the gate rejects the statement
execute_select_query_rejected(sql_query) ==
    /\ op = "idle"
    /\ UNCHANGED mvars
    /\ ~PassesGate(sql_query)
    /\ op' = "execute_select_query"
    /\ arg' = Args(sql_query, <<>>, 0)
    /\ dispatched' = <<>>
    /\ outcomes' = <<>>
    /\ result' = None
    /\ ret' = PolicyViolationResponse(sql_query)

\* mcp.py execute_select_query: the statement passes and goes to the gateway
execute_select_query_passed(sql_query) ==
    /\ op = "idle"
    /\ UNCHANGED mvars
    /\ PassesGate(sql_query)
    /\ \E o \in EngineOutcomes(EngineText(sql_query)), d \in Durations :
        /\ op' = "execute_select_query"
        /\ arg' = Args(sql_query, <<>>, 0)
        /\ dispatched' = EngineDispatch(sql_query)
        /\ outcomes' = <<o>>
        /\ result' = Some(PostgreSQLManager_execute_query(o, d))
        /\ ret' = ExecutionResponse(sql_query, PostgreSQLManager_execute_query(o, d))

execute_select_query(sql_query) ==
    \/ execute_select_query_rejected(sql_query)
    \/ execute_select_query_passed(sql_query)

\* mcp.py get_sample_data over PostgreSQLManager.get_sample_data
get_sample_data(table_name, limit) ==
    LET query == SampleQuery(table_name, SafeLimit(limit)) IN
    \E o \in EngineOutcomes(EngineText(query)), d \in Durations :
        /\ op = "idle"
        /\ UNCHANGED mvars
        /\ op' = "get_sample_data"
        /\ arg' = Args(<<>>, table_name, limit)
        /\ dispatched' = EngineDispatch(query)
        /\ outcomes' = <<o>>
        /\ result' = Some(PostgreSQLManager_execute_query(o, d))
        /\ ret' = SampleDataResponse(TRUE, table_name,
                    Some(PostgreSQLManager_get_sample_data(table_name,
                            PostgreSQLManager_execute_query(o, d))),
                    None)

\* mcp.py get_table_statistics: get_table_schema raises (outer except)
get_table_statistics_error(table_name) ==
    \E ins \in InspectorAnswers(table_name) :
        /\ op = "idle"
        /\ UNCHANGED mvars
        /\ ~PostgreSQLManager_get_table_schema(table_name, ins).ok
        /\ op' = "get_table_statistics"
        /\ arg' = Args(<<>>, table_name, 0)
        /\ dispatched' = <<>>
        /\ outcomes' = <<>>
        /\ result' = None
        /\ ret' = [kind |-> "error"]

\* mcp.py get_table_statistics: the schema has no columns
get_table_statistics_not_found(table_name) ==
    \E ins \in InspectorAnswers(table_name) :
        /\ op = "idle"
        /\ UNCHANGED mvars
        /\ PostgreSQLManager_get_table_schema(table_name, ins).ok
        /\ PostgreSQLManager_get_table_schema(table_name, ins).val.columns = <<>>
        /\ op' = "get_table_statistics"
        /\ arg' = Args(<<>>, table_name, 0)
        /\ dispatched' = <<>>
        /\ outcomes' = <<>>
        /\ result' = None
        /\ ret' = [kind |-> "not_found"]

\* mcp.py get_table_statistics: the schema has columns, the rows are counted
get_table_statistics_report(table_name) ==
    \E ins \in InspectorAnswers(table_name) :
        /\ op = "idle"
        /\ UNCHANGED mvars
        /\ PostgreSQLManager_get_table_schema(table_name, ins).ok
        /\ PostgreSQLManager_get_table_schema(table_name, ins).val.columns # <<>>
        /\ \E o \in EngineOutcomes(EngineText(CountQuery(table_name))), d \in Durations :
            /\ op' = "get_table_statistics"
            /\ arg' = Args(<<>>, table_name, 0)
            /\ dispatched' = EngineDispatch(CountQuery(table_name))
            /\ outcomes' = <<o>>
            /\ result' = Some(PostgreSQLManager_execute_query(o, d))
            /\ ret' = StatisticsReport(
                        PostgreSQLManager_get_table_schema(table_name, ins).val,
                        RowCountLine(PostgreSQLManager_execute_query(o, d)))

get_table_statistics(table_name) ==
    \/ get_table_statistics_error(table_name)
    \/ get_table_statistics_not_found(table_name)
    \/ get_table_statistics_report(table_name)

\* table names callers pass to get_table_schema
SchemaNames ==
    { n_users, n_orders, n_logs, n_links, n_notes, n_ghost, n_blank, <<>>,
      n_odd, n_sp_logs }

\* mcp.py list_tables over PostgreSQLManager.list_tables
list_tables ==
    \E ans \in TableListAnswers :
        /\ op = "idle"
        /\ UNCHANGED mvars
        /\ op' = "list_tables"
        /\ arg' = Args(<<>>, <<>>, 0)
        /\ dispatched' = <<>>
        /\ outcomes' = <<ans>>
        /\ result' = None
        /\ ret' = ListTablesResponse(PostgreSQLManager_list_tables(ans))

\* mcp.py get_table_schema over PostgreSQLManager.get_table_schema
get_table_schema(table_name) ==
    \E ins \in InspectorAnswers(table_name) :
        /\ op = "idle"
        /\ UNCHANGED mvars
        /\ op' = "get_table_schema"
        /\ arg' = Args(<<>>, table_name, 0)
        /\ dispatched' = <<>>
        /\ outcomes' = <<ins>>
        /\ result' = None
        /\ ret' = SchemaResponse(table_name,
                                 PostgreSQLManager_get_table_schema(table_name, ins))

\* mcp.py get_database_overview over PostgreSQLManager.get_database_schema
get_database_overview ==
    \E ans \in TableListAnswers :
        LET listed == PostgreSQLManager_list_tables(ans)
            tables == IF listed.ok THEN listed.val ELSE <<>>
        IN  \E fails \in [1..Len(tables) -> 0..4] :
              LET inss == [i \in 1..Len(tables) |-> InspectorAnswer(tables[i], fails[i])] IN
                /\ op = "idle"
                /\ UNCHANGED mvars
                /\ op' = "get_database_overview"
                /\ arg' = Args(<<>>, <<>>, 0)
                /\ dispatched' = <<>>
                /\ outcomes' = <<ans, inss>>
                /\ result' = None
                /\ ret' = OverviewResponse(
                            PostgreSQLManager_get_database_schema(listed, inss))

\* postgres_db.py list_databases
list_databases ==
    /\ op = "idle"
    /\ UNCHANGED mvars
    /\ \E c \in SideConnectionOutcomes(qListDatabases) :
        /\ op' = "list_databases"
        /\ arg' = Args(<<>>, <<>>, 0)
        /\ dispatched' = IF c.connected THEN <<qListDatabases>> ELSE <<>>
        /\ outcomes' = <<c.outcome>>
        /\ result' = None
        /\ ret' = PostgreSQLManager_list_databases(c.outcome)

\* the tool has returned its value; nothing of the call is kept
tool_return ==
    /\ op # "idle"
    /\ UNCHANGED mvars
    /\ op' = "idle"
    /\ arg' = Args(<<>>, <<>>, 0)
    /\ dispatched' = <<>>
    /\ outcomes' = <<>>
    /\ result' = None
    /\ ret' = None

(***************************************************************************)
(* The Connection Manager: ConnectionConfig from the environment, the      *)
(* engine's connection pool, the callers that share one manager, and the   *)
(* catalog they read, which DDL of other sessions changes between calls.   *)
(***************************************************************************)
\* the largest port validate_port accepts
MaxPort == 65535

\* connections the engine's pool hands out before a caller has to wait
PoolCapacity == 1

\* callers that share db_manager
NumCallers == 2

\* engines of list_databases not yet collected
MaxLeaked == 1

\* calls of close()
MaxCloses == 2

h_localhost == <<"l","o","c","a","l","h","o","s","t">>
p_minus1 == <<"-","1">>
p_0 == <<"0">>
p_1 == <<"1">>
p_5432 == <<"5","4","3","2">>
p_65535 == <<"6","5","5","3","5">>
p_65536 == <<"6","5","5","3","6">>
mNoResult == <<"T","h","i","s"," ","r","e","s","u","l","t"," ","o","b","j","e","c","t"," ","d","o","e","s"," ","n","o","t"," ","r","e","t","u","r","n"," ","r","o","w","s">>
mPoolTimeout == <<"Q","u","e","u","e","P","o","o","l"," ","l","i","m","i","t"," ","r","e","a","c","h","e","d",","," ","c","o","n","n","e","c","t","i","o","n"," ","t","i","m","e","d"," ","o","u","t">>

\* values of POSTGRES_PORT and POSTGRES_DB in the environment
PortTexts == { p_minus1, p_0, p_1, p_5432, p_65535, p_65536 }

\* os.environ when nothing is set but the defaults
DefaultEnvironment == [POSTGRES_PORT |-> p_5432, POSTGRES_DB |-> d_postgres]

Environments ==
    { [POSTGRES_PORT |-> p, POSTGRES_DB |-> d_postgres] : p \in PortTexts }
    \cup { [POSTGRES_PORT |-> p_5432, POSTGRES_DB |-> d_shop] }

\* mutant of validate_port: 0 <= v <= 65535
validate_port_zero(v) == IF 0 <= v /\ v <= MaxPort THEN Ok(v) ELSE Raised

\* ConnectionConfig.validate_port
validate_port(v) == IF 1 <= v /\ v <= MaxPort THEN Ok(v) ELSE Raised

\* ConnectionConfig(...): the object, or the ValidationError of its port
ConnectionConfig(host, port, username, password, database) ==
    IF validate_port(port).ok
    THEN Ok([host |-> host, port |-> validate_port(port).val,
             username |-> username, password |-> password,
             database |-> database])
    ELSE Raised

\* PostgreSQLManager._load_config(None) under the environment env
PostgreSQLManager_load_config(env) ==
    ConnectionConfig(h_localhost, IntValue(env.POSTGRES_PORT), d_postgres, <<>>,
                     env.POSTGRES_DB)

\* mutant of model_copy: the same object is handed back
model_copy_alias(objects, ref) == [heap |-> objects, ref |-> ref]

\* config.model_copy(): a new object with the fields of the one at ref
model_copy(objects, ref) ==
    [heap |-> Append(objects, objects[ref]), ref |-> Len(objects) + 1]

(***************************************************************************)
(* The catalog as it is now: the live tables and how many of the columns   *)
(* of Catalog each of them has.                                            *)
(***************************************************************************)
FullCatalog == (n_users :> 2) @@ (n_logs :> 2)

\* inspector.get_table_names() on the catalog cat
LiveTables(cat) ==
    SelectSeq(<<n_users, n_logs>>, LAMBDA t : t \in DOMAIN cat)

\* the metadata of table t in cat
LiveTable(cat, t) ==
    [Catalog[t] EXCEPT
        !.columns_info = SubSeq(Catalog[t].columns_info, 1, cat[t]),
        !.rows = [i \in 1..Len(Catalog[t].rows) |->
                    SubSeq(Catalog[t].rows[i], 1, cat[t])]]

\* what an inspector fetch of the given kind reads
MetaAnswer(kind, val) == [kind |-> kind, val |-> val]

FetchKinds == <<"columns", "pk", "fks", "indexes">>

\* what the server answers to the inspector's fetch key = <<kind, table>>
LiveFetch(cat, key) ==
    IF key[1] = "tables" THEN MetaAnswer("tables", LiveTables(cat))
    ELSE IF key[2] \notin DOMAIN cat THEN SqlError(mNoRelation)
    ELSE CASE key[1] = "columns" -> MetaAnswer("columns", LiveTable(cat, key[2]).columns_info)
           [] key[1] = "pk"      -> MetaAnswer("pk", LiveTable(cat, key[2]).pk_constraint)
           [] key[1] = "fks"     -> MetaAnswer("fks", LiveTable(cat, key[2]).fk_info)
           [] key[1] = "indexes" -> MetaAnswer("indexes", LiveTable(cat, key[2]).indexes_info)

\* what the server answers to SELECT * FROM <table> LIMIT <n> on cat
LiveSelect(cat, stmt) ==
    LET w == Words(stmt) IN
    IF ~IsSelectStar(w) THEN SqlError(mSyntaxError)
    ELSE IF w[4] \notin DOMAIN cat THEN SqlError(mNoRelation)
    ELSE LET t == LiveTable(cat, w[4])
             n == IF Len(w) = 6 THEN Min(IntValue(w[6]), Len(t.rows)) ELSE Len(t.rows)
         IN  RowsOutcome(ColumnNames(t), SubSeq(t.rows, 1, n))

IsFailure(answer) == answer.kind \in {"sqlerror", "exception"}

(***************************************************************************)
(* One call of a manager method by one caller.  Every fetch borrows a      *)
(* connection (with self.engine.connect() as conn, or the inspector's own  *)
(* with block), leaves its answer on that connection's cursor, reads it    *)
(* and gives the connection back.                                          *)
(***************************************************************************)
EmptyPart ==
    [columns_info |-> <<>>, pk_constraint |-> <<>>, fk_info |-> <<>>,
     indexes_info |-> <<>>]

\* an Inspector's info_cache with nothing in it
EmptyCache == [k \in {} |-> <<>>]

\* mutant of NewInspector: the inspector of the call before is used again
NewInspector_reused(old) == old

\* inspect(self.engine): a new Inspector, whose cache is empty
NewInspector(old) == EmptyCache

IdleCall ==
    [pc |-> "idle", op |-> "none", arg |-> <<>>, conn |-> 0, tables |-> <<>>,
     tix |-> 0, fix |-> 0, part |-> EmptyPart, inss |-> <<>>,
     cache |-> EmptyCache, temp |-> 0, side |-> None, faulted |-> FALSE,
     starved |-> FALSE, result |-> None, seen |-> None]

\* the operations callers invoke and their arguments
Operations ==
    { [op |-> "list_tables", arg |-> <<>>],
      [op |-> "get_table_schema", arg |-> n_users],
      [op |-> "get_table_schema", arg |-> n_logs],
      [op |-> "get_database_schema", arg |-> <<>>],
      [op |-> "execute_query", arg |-> SampleQuery(n_logs, 1)],
      [op |-> "get_sample_data", arg |-> n_users] }

\* the limit get_sample_data is called with
CallLimit == 2

\* the call record when the method is entered
StartCall(old, o) ==
    [IdleCall EXCEPT
        !.pc = "acquire", !.op = o.op, !.arg = o.arg,
        !.tables = IF o.op = "get_table_schema" THEN <<o.arg>> ELSE <<>>,
        !.tix = IF o.op = "get_table_schema" THEN 1 ELSE 0,
        !.fix = IF o.op = "get_table_schema" THEN 1 ELSE 0,
        !.cache = IF o.op \in {"list_tables", "get_table_schema", "get_database_schema"}
                  THEN NewInspector(old.cache) ELSE old.cache,
        !.seen = old.seen]

UsesInspector(call) ==
    call.op \in {"list_tables", "get_table_schema", "get_database_schema"}

\* the inspector fetch the call is at
FetchKey(call) ==
    IF call.tix = 0 THEN <<"tables", <<>>>>
    ELSE <<FetchKinds[call.fix], call.tables[call.tix]>>

\* the statement text the call is at
CallStatement(call) ==
    CASE call.op = "execute_query" -> call.arg
      [] call.op = "get_sample_data" -> SampleQuery(call.arg, CallLimit)
      [] call.op = "list_databases" -> qListDatabases

\* what the server leaves on the cursor for the call's fetch
ServerAnswer(cat, call) ==
    IF UsesInspector(call) THEN LiveFetch(cat, FetchKey(call))
    ELSE LiveSelect(cat, CallStatement(call))

\* the answer is one to the call's fetch: the metadata asked for, the rows of
\* a statement, or a failure
Fits(call, answer) ==
    \/ IsFailure(answer)
    \/ IF UsesInspector(call) THEN answer.kind = FetchKey(call)[1]
       ELSE answer.kind \in {"rows", "norows"}

\* what the caller reads on its connection: the answer to its fetch; a
\* connection closed under it, or one that carries no result of its own
\* fetch, raises
Fetched(call, cursor) ==
    IF cursor = None THEN OtherError(mPoolClosed)
    ELSE IF ~Fits(call, cursor[1]) THEN OtherError(mNoResult)
    ELSE cursor[1]

\* the inspector's method: the cached value when there is one
InspectorRead(call, answer) ==
    IF UsesInspector(call) /\ FetchKey(call) \in DOMAIN call.cache
    THEN call.cache[FetchKey(call)]
    ELSE answer

\* the cache after the fetch: a value that was read is kept
CacheAfter(call, answer) ==
    IF UsesInspector(call) /\ ~IsFailure(answer)
    THEN (FetchKey(call) :> answer) @@ call.cache
    ELSE call.cache

\* the four fetches of one table so far, with the k-th having failed (0: none)
InspectorAnswerOf(part, k) ==
    [fail_at |-> k, columns_info |-> part.columns_info,
     pk_constraint |-> part.pk_constraint, fk_info |-> part.fk_info,
     indexes_info |-> part.indexes_info]

PartAfter(part, fix, val) ==
    CASE fix = 1 -> [part EXCEPT !.columns_info = val]
      [] fix = 2 -> [part EXCEPT !.pk_constraint = val]
      [] fix = 3 -> [part EXCEPT !.fk_info = val]
      [] fix = 4 -> [part EXCEPT !.indexes_info = val]

\* every DatabaseColumn of the fetched columns can be constructed
ColumnsConstructible(columns_info) ==
    \A i \in 1..Len(columns_info) : Strip(columns_info[i].name) # <<>>

\* DatabaseSchema(database_name=self.config.database) in place of the default
WithDatabaseName(built, database_name) ==
    IF built.ok THEN Ok([built.val EXCEPT !.database_name = database_name])
    ELSE built

\* the call once the table at tix is finished with the inspector answer ins
TableDone(call, ins, database_name) ==
    IF call.op = "get_table_schema"
    THEN [call EXCEPT !.pc = "done",
                      !.result = Some(PostgreSQLManager_get_table_schema(call.arg, ins))]
    ELSE IF call.tix < Len(call.tables)
    THEN [call EXCEPT !.pc = "acquire", !.tix = call.tix + 1, !.fix = 1,
                      !.part = EmptyPart, !.inss = Append(call.inss, ins),
                      !.cache = NewInspector(call.cache)]
    ELSE [call EXCEPT !.pc = "done", !.inss = Append(call.inss, ins),
                      !.result = Some(WithDatabaseName(
                          PostgreSQLManager_get_database_schema(
                              Ok(call.tables), Append(call.inss, ins)),
                          database_name))]

\* the call after its fetch has been answered with answer
Advance(call, answer, database_name) ==
    CASE call.op = "list_tables" ->
            [call EXCEPT !.pc = "done",
                !.result = Some(PostgreSQLManager_list_tables(
                    [fail |-> IsFailure(answer),
                     tables |-> IF IsFailure(answer) THEN <<>> ELSE answer.val]).val)]
      [] call.op = "execute_query" ->
            [call EXCEPT !.pc = "done",
                !.result = Some(PostgreSQLManager_execute_query(answer, 0))]
      [] call.op = "get_sample_data" ->
            [call EXCEPT !.pc = "done",
                !.result = Some(PostgreSQLManager_get_sample_data(
                    call.arg, PostgreSQLManager_execute_query(answer, 0)))]
      [] call.op = "list_databases" ->
            [call EXCEPT !.pc = "done",
                !.result = Some(PostgreSQLManager_list_databases(answer).val)]
      [] call.op = "get_database_schema" /\ call.tix = 0 ->
            LET listed == PostgreSQLManager_list_tables(
                              [fail |-> IsFailure(answer),
                               tables |-> IF IsFailure(answer) THEN <<>>
                                          ELSE answer.val]).val
            IN  IF listed = <<>>
                THEN [call EXCEPT !.pc = "done",
                        !.result = Some(WithDatabaseName(
                            PostgreSQLManager_get_database_schema(Ok(<<>>), <<>>),
                            database_name))]
                ELSE [call EXCEPT !.pc = "acquire", !.tables = listed,
                        !.tix = 1, !.fix = 1, !.part = EmptyPart,
                        !.cache = NewInspector(call.cache)]
      [] OTHER ->
            IF IsFailure(answer)
            THEN TableDone(call, InspectorAnswerOf(call.part, call.fix), database_name)
            ELSE LET part == PartAfter(call.part, call.fix, answer.val) IN
                 IF call.fix = 4 \/ ~ColumnsConstructible(part.columns_info)
                 THEN TableDone([call EXCEPT !.part = part],
                                InspectorAnswerOf(part, 0), database_name)
                 ELSE [call EXCEPT !.pc = "acquire", !.part = part,
                                   !.fix = call.fix + 1]

\* the metadata the inspector reads of table t when nothing fails
LiveInspectorAnswer(cat, t) ==
    IF t \in DOMAIN cat
    THEN InspectorAnswerOf(
             [columns_info |-> LiveTable(cat, t).columns_info,
              pk_constraint |-> LiveTable(cat, t).pk_constraint,
              fk_info |-> LiveTable(cat, t).fk_info,
              indexes_info |-> LiveTable(cat, t).indexes_info], 0)
    ELSE InspectorAnswerOf(EmptyPart, 1)

\* what the operation o returns on the catalog cat when it runs by itself
\* and nothing fails
AloneResult(o, cat, database_name) ==
    CASE o.op = "list_tables" -> LiveTables(cat)
      [] o.op = "get_table_schema" ->
            PostgreSQLManager_get_table_schema(o.arg, LiveInspectorAnswer(cat, o.arg))
      [] o.op = "get_database_schema" ->
            WithDatabaseName(
                PostgreSQLManager_get_database_schema(
                    Ok(LiveTables(cat)),
                    [i \in 1..Len(LiveTables(cat)) |->
                        LiveInspectorAnswer(cat, LiveTables(cat)[i])]),
                database_name)
      [] o.op = "execute_query" ->
            PostgreSQLManager_execute_query(LiveSelect(cat, o.arg), 0)
      [] o.op = "get_sample_data" ->
            PostgreSQLManager_get_sample_data(o.arg,
                PostgreSQLManager_execute_query(
                    LiveSelect(cat, SampleQuery(o.arg, CallLimit)), 0))

\* mutant of Checkout: one connection is shared by all callers
Checkout_shared(cs) == 1

\* the pool's choice: a connection that is checked in, else a new one, else
\* none (0)
Checkout(cs) ==
    IF \E i \in DOMAIN cs : cs[i].state = "idle"
    THEN CHOOSE i \in DOMAIN cs :
            cs[i].state = "idle" /\ \A j \in DOMAIN cs : cs[j].state = "idle" => i <= j
    ELSE IF \E i \in DOMAIN cs : cs[i].state = "closed"
    THEN CHOOSE i \in DOMAIN cs :
            cs[i].state = "closed" /\ \A j \in DOMAIN cs : cs[j].state = "closed" => i <= j
    ELSE 0

\* mutant of CheckedIn: the connection of a failed statement is kept
CheckedIn_exceptOnFailure(answer) == IF IsFailure(answer) THEN "out" ELSE "idle"

\* the state of a connection when its with block is left
CheckedIn(answer) == "idle"

Callers == 1..NumCallers

ClosedPool == [i \in 1..PoolCapacity |-> [state |-> "closed", cursor |-> None]]

AllIdle == \A c \in Callers : calls[c].pc = "idle"

\* the state before PostgreSQLManager() is called, under some environment
ManagerUnbuilt ==
    /\ environ \in Environments
    /\ life = "unbuilt"
    /\ closes = 0
    /\ heap = <<>>
    /\ conns = ClosedPool
    /\ leaked = 0
    /\ catalog = FullCatalog
    /\ calls = [c \in Callers |-> IdleCall]

\* the state when db_manager = PostgreSQLManager() has returned under the
\* default environment: the connection of SELECT 1 is back in the pool
ManagerOpen ==
    /\ environ = DefaultEnvironment
    /\ life = "open"
    /\ closes = 0
    /\ heap = <<PostgreSQLManager_load_config(DefaultEnvironment).val>>
    /\ conns = [ClosedPool EXCEPT ![1].state = "idle"]
    /\ leaked = 0
    /\ catalog = FullCatalog
    /\ calls = [c \in Callers |-> IdleCall]

\* __init__: self.config = self._load_config(database_name)
load_config ==
    /\ life = "unbuilt"
    /\ LET built == PostgreSQLManager_load_config(environ) IN
        IF built.ok
        THEN /\ heap' = <<built.val>>
             /\ life' = "configured"
        ELSE /\ heap' = heap
             /\ life' = "failed"
    /\ UNCHANGED <<environ, closes, conns, leaked, catalog, calls>>
    /\ UNCHANGED vars

\* _connect: create_engine, then SELECT 1 on a connection that is given back
connect_reached ==
    /\ life = "configured"
    /\ life' = "open"
    /\ conns' = [conns EXCEPT ![Checkout(conns)] =
                    [state |-> CheckedIn(RowsOutcome(<<>>, <<>>)), cursor |-> None]]
    /\ UNCHANGED <<environ, closes, heap, leaked, catalog, calls>>
    /\ UNCHANGED vars

\* _connect: the server is not reached, the exception is raised again
connect_refused ==
    /\ life = "configured"
    /\ life' = "failed"
    /\ UNCHANGED <<environ, closes, heap, conns, leaked, catalog, calls>>
    /\ UNCHANGED vars

connect ==
    \/ connect_reached
    \/ connect_refused

\* caller c enters a method of the manager
call(c, o) ==
    /\ life = "open"
    /\ calls[c].pc = "idle"
    /\ calls' = [calls EXCEPT ![c] = StartCall(calls[c], o)]
    /\ UNCHANGED <<environ, life, closes, heap, conns, leaked, catalog>>
    /\ UNCHANGED vars

\* list_databases: temp_config = self.config.model_copy();
\* temp_config.database = "postgres"; temp_engine = create_engine(...)
call_list_databases(c) ==
    /\ life = "open"
    /\ calls[c].pc = "idle"
    /\ leaked < MaxLeaked
    /\ LET m == model_copy(heap, 1) IN
        /\ heap' = [m.heap EXCEPT ![m.ref].database = d_postgres]
        /\ calls' = [calls EXCEPT ![c] =
                        [IdleCall EXCEPT !.pc = "acquire", !.op = "list_databases",
                                         !.temp = m.ref, !.cache = calls[c].cache,
                                         !.seen = calls[c].seen]]
    /\ UNCHANGED <<environ, life, closes, conns, leaked, catalog>>
    /\ UNCHANGED vars

\* with self.engine.connect() as conn: a connection is borrowed and the
\* statement runs on it, or fails on it
engine_connect(c) ==
    /\ calls[c].pc = "acquire"
    /\ calls[c].op # "list_databases"
    /\ Checkout(conns) # 0
    /\ \E injected \in BOOLEAN :
        LET answer == IF injected THEN SqlError(mConnectionRefused)
                      ELSE ServerAnswer(catalog, calls[c])
        IN  /\ conns' = [conns EXCEPT ![Checkout(conns)] =
                            [state |-> "out", cursor |-> Some(answer)]]
            /\ calls' = [calls EXCEPT ![c] =
                            [calls[c] EXCEPT !.pc = "holding",
                                             !.conn = Checkout(conns),
                                             !.faulted = calls[c].faulted \/ injected]]
    /\ UNCHANGED <<environ, life, closes, heap, leaked, catalog>>
    /\ UNCHANGED vars

\* every connection of the pool is out: the pool's TimeoutError
pool_timeout(c) ==
    /\ calls[c].pc = "acquire"
    /\ calls[c].op # "list_databases"
    /\ Checkout(conns) = 0
    /\ calls' = [calls EXCEPT ![c] =
                    [Advance(calls[c], SqlError(mPoolTimeout), heap[1].database)
                        EXCEPT !.starved = TRUE]]
    /\ UNCHANGED <<environ, life, closes, heap, conns, leaked, catalog>>
    /\ UNCHANGED vars

\* the with block is left: the cursor is read, the connection goes back
connection_exit(c) ==
    /\ calls[c].pc = "holding"
    /\ calls[c].op # "list_databases"
    /\ LET id == calls[c].conn
           answer == Fetched(calls[c], conns[id].cursor)
           read == InspectorRead(calls[c], answer)
       IN  /\ conns' = [conns EXCEPT ![id] =
                           [state |-> CheckedIn(answer), cursor |-> None]]
           /\ calls' = [calls EXCEPT ![c] =
                           Advance([calls[c] EXCEPT !.conn = 0,
                                        !.cache = CacheAfter(calls[c], read)],
                                   read, heap[1].database)]
    /\ UNCHANGED <<environ, life, closes, heap, leaked, catalog>>
    /\ UNCHANGED vars

\* the heap once the copy at ref is no longer referred to
Forget(objects, ref) ==
    IF ref > 1 /\ ref = Len(objects) THEN SubSeq(objects, 1, ref - 1) ELSE objects

\* list_databases: with temp_engine.connect() as conn, refused or entered
side_connect(c) ==
    /\ calls[c].pc = "acquire"
    /\ calls[c].op = "list_databases"
    /\ \E s \in SideConnectionOutcomes(qListDatabases) :
        IF s.connected
        THEN /\ calls' = [calls EXCEPT ![c] =
                            [calls[c] EXCEPT !.pc = "holding",
                                             !.side = Some(s.outcome),
                                             !.faulted = IsFailure(s.outcome)]]
             /\ heap' = heap
        ELSE /\ calls' = [calls EXCEPT ![c] =
                            [Advance(calls[c], s.outcome, heap[1].database)
                                EXCEPT !.faulted = TRUE, !.temp = 0]]
             /\ heap' = Forget(heap, calls[c].temp)
    /\ UNCHANGED <<environ, life, closes, conns, leaked, catalog>>
    /\ UNCHANGED vars

\* list_databases returns: the connection is back in the pool of
\* temp_engine, which nothing disposes and nothing refers to any more
side_exit(c) ==
    /\ calls[c].pc = "holding"
    /\ calls[c].op = "list_databases"
    /\ calls' = [calls EXCEPT ![c] =
                    [Advance(calls[c], calls[c].side[1], heap[1].database)
                        EXCEPT !.side = None, !.temp = 0]]
    /\ heap' = Forget(heap, calls[c].temp)
    /\ leaked' = leaked + 1
    /\ UNCHANGED <<environ, life, closes, conns, catalog>>
    /\ UNCHANGED vars

\* the caller has the value of the method; seen is the listing the caller
\* was last given by a list_tables that reached the catalog
call_return(c) ==
    /\ calls[c].pc = "done"
    /\ calls' = [calls EXCEPT ![c] =
                    [IdleCall EXCEPT
                        !.cache = calls[c].cache,
                        !.seen = IF calls[c].op = "list_tables" /\ ~calls[c].faulted
                                    /\ ~calls[c].starved
                                 THEN calls[c].result ELSE calls[c].seen]]
    /\ UNCHANGED <<environ, life, closes, heap, conns, leaked, catalog>>
    /\ UNCHANGED vars

\* the garbage collector frees an engine of list_databases; its pooled
\* connection is closed with it
gc_collect ==
    /\ leaked > 0
    /\ leaked' = leaked - 1
    /\ UNCHANGED <<environ, life, closes, heap, conns, calls, catalog>>
    /\ UNCHANGED vars

\* close(): self.engine.dispose() closes the connections that are checked in
close ==
    /\ life \in {"open", "closed"}
    /\ closes < MaxCloses
    /\ AllIdle
    /\ life' = "closed"
    /\ closes' = closes + 1
    /\ conns' = [i \in DOMAIN conns |->
                    IF conns[i].state = "idle"
                    THEN [state |-> "closed", cursor |-> None] ELSE conns[i]]
    /\ UNCHANGED <<environ, heap, leaked, calls, catalog>>
    /\ UNCHANGED vars

\* another session changes the catalog between two calls
drop_table ==
    /\ life = "open" /\ AllIdle
    /\ n_logs \in DOMAIN catalog
    /\ catalog' = [t \in DOMAIN catalog \ {n_logs} |-> catalog[t]]
    /\ UNCHANGED <<environ, life, closes, heap, conns, leaked, calls>>
    /\ UNCHANGED vars

create_table ==
    /\ life = "open" /\ AllIdle
    /\ n_logs \notin DOMAIN catalog
    /\ catalog' = catalog @@ (n_logs :> 2)
    /\ UNCHANGED <<environ, life, closes, heap, conns, leaked, calls>>
    /\ UNCHANGED vars

drop_column ==
    /\ life = "open" /\ AllIdle
    /\ catalog[n_users] = 2
    /\ catalog' = [catalog EXCEPT ![n_users] = 1]
    /\ UNCHANGED <<environ, life, closes, heap, conns, leaked, calls>>
    /\ UNCHANGED vars

add_column ==
    /\ life = "open" /\ AllIdle
    /\ catalog[n_users] = 1
    /\ catalog' = [catalog EXCEPT ![n_users] = 2]
    /\ UNCHANGED <<environ, life, closes, heap, conns, leaked, calls>>
    /\ UNCHANGED vars

Next ==
    \/ tool_return
    \/ \E sql_query \in Statements : execute_select_query(sql_query)
    \/ \E table_name \in TableNames, limit \in Limits : get_sample_data(table_name, limit)
    \/ \E table_name \in TableNames : get_table_statistics(table_name)
    \/ list_tables
    \/ \E table_name \in SchemaNames : get_table_schema(table_name)
    \/ get_database_overview
    \/ list_databases

\* the server is up: no tool call in progress, the manager built and open
Serving == Init /\ ManagerOpen

Spec == Serving /\ [][Next]_allvars

\* one caller, from construction to close, while the catalog changes
ManagerNext ==
    \/ load_config
    \/ connect
    \/ \E o \in Operations : call(1, o)
    \/ call_list_databases(1)
    \/ engine_connect(1)
    \/ connection_exit(1)
    \/ side_connect(1)
    \/ side_exit(1)
    \/ call_return(1)
    \/ gc_collect
    \/ close
    \/ drop_table
    \/ create_table
    \/ drop_column
    \/ add_column

\* the process before mcp.py line 23 has run
Starting == Init /\ ManagerUnbuilt

ManagerSpec == Starting /\ [][ManagerNext]_allvars

\* concurrent callers of one open manager on an unchanged database
PoolNext ==
    \/ \E c \in Callers, o \in Operations : call(c, o)
    \/ \E c \in Callers : engine_connect(c)
    \/ \E c \in Callers : pool_timeout(c)
    \/ \E c \in Callers : connection_exit(c)
    \/ \E c \in Callers : call_return(c)

PoolSpec == Serving /\ [][PoolNext]_allvars


(***************************************************************************)
(* Properties.                                                             *)
(***************************************************************************)
\* the trimmed, upper-cased form of text begins with SELECT
BeginsWithSelect(text) ==
    LET t == Upper(Strip(text)) IN
    Len(t) >= 6 /\ [i \in 1..6 |-> t[i]] = kwSELECT

\* name is the unquoted identifier of a table: word characters only
IsIdentifier(name) ==
    name # <<>> /\ \A i \in 1..Len(name) : name[i] \in WordChars

\* C1: a statement whose trimmed, upper-cased text does not begin with SELECT
\* is answered with success=false and the fixed policy-violation error, with
\* no result (no rows, no columns), and nothing is handed to the engine.
C1_RejectedWithoutEngineCall ==
    (op = "execute_select_query" /\ ~BeginsWithSelect(arg.sql_query)) =>
        /\ ret.success = FALSE
        /\ ret.error = Some(ePolicyViolation)
        /\ ret.result = None
        /\ result = None
        /\ dispatched = <<>>
        /\ outcomes = <<>>

\* a WITH-prefixed statement that contains SELECT later has been rejected
C1_Witness ==
    /\ op = "execute_select_query"
    /\ arg.sql_query = qWithCte
    /\ ret.error = Some(ePolicyViolation)
    /\ dispatched = <<>>

\* C2: whatever execute_select_query, get_sample_data and get_table_statistics
\* are called with, every statement the engine receives begins with SELECT
\* once trimmed and upper-cased.
C2_OnlySelectReachesEngine ==
    \A i \in 1..Len(dispatched) : BeginsWithSelect(dispatched[i])

\* the sampler has sent a statement built from a table name that is no identifier
C2_Witness ==
    /\ op = "get_sample_data"
    /\ arg.table_name = n_inject
    /\ Len(dispatched) = 1
    /\ BeginsWithSelect(dispatched[1])

\* C3: a statement that passes the gate is handed to the engine exactly once,
\* also when the engine fails, and the text handed over is the caller's text,
\* untrimmed and in its own case.
C3_OneDispatchOfCallerText ==
    (op = "execute_select_query" /\ BeginsWithSelect(arg.sql_query)) =>
        /\ dispatched = <<arg.sql_query>>
        /\ Len(outcomes) = 1

\* a padded lower-case statement went to the engine once, unchanged, and failed
C3_Witness ==
    /\ op = "execute_select_query"
    /\ arg.sql_query = qLowerPadded
    /\ dispatched = <<qLowerPadded>>
    /\ outcomes[1].kind = "sqlerror"
    /\ ret.success = FALSE

\* C4: when the engine returns n rows with column names C for a passing
\* statement, the response is a success whose QueryResult has n row records,
\* the i-th built from the engine's i-th row, and columns equal to C.
C4_RowsAndColumnsOfEngine ==
    (op = "execute_select_query" /\ Len(outcomes) = 1 /\ outcomes[1].kind = "rows") =>
        LET o == outcomes[1]
            r == result[1]
        IN  /\ ret.success
            /\ ret.result = Some(r)
            /\ r.success
            /\ r.columns = Some(o.keys)
            /\ Len(r.data[1]) = Len(o.rows)
            /\ \A i \in 1..Len(o.rows) :
                 /\ DOMAIN r.data[1][i] = Range(o.keys)
                 /\ \A k \in Range(o.keys) :
                      \E j \in 1..Len(o.keys) :
                          o.keys[j] = k /\ r.data[1][i][k] = o.rows[i][j]

\* SELECT id, name FROM users LIMIT 2 has returned two records with columns id, name
C4_Witness ==
    /\ op = "execute_select_query"
    /\ arg.sql_query = qSelectIdName
    /\ Len(outcomes) = 1
    /\ outcomes[1].kind = "rows"
    /\ ret.success
    /\ result[1].columns = Some(<<n_id, n_name>>)
    /\ Len(result[1].data[1]) = 2

\* C5: a successful QueryResult has row data and columns, and no rows-affected,
\* when the engine returned rows; it has rows-affected, and neither row data
\* nor columns, when the engine returned none; never both, never neither.
C5_DataXorRowsAffected ==
    (result # None /\ result[1].success) =>
        LET o == outcomes[1]
            r == result[1]
        IN  /\ o.kind = "rows" =>
                (r.data # None /\ r.columns # None /\ r.rows_affected = None)
            /\ o.kind = "norows" =>
                (r.rows_affected # None /\ r.data = None /\ r.columns = None)
            /\ (r.data # None) # (r.rows_affected # None)

\* SELECT ... INTO passed the gate and returned no rows: rows-affected only
C5_Witness ==
    /\ op = "execute_select_query"
    /\ arg.sql_query = qSelectInto
    /\ Len(outcomes) = 1
    /\ outcomes[1].kind = "norows"
    /\ result[1].success
    /\ result[1].rows_affected = Some(3)
    /\ result[1].data = None

\* C6: when the engine fails on a passing statement, a failure response is
\* returned (nothing is raised) and the QueryResult has success=false, the
\* error description and the duration set, and no data, columns, rows-affected.
C6_EngineFailureCaptured ==
    (op = "execute_select_query" /\ Len(outcomes) = 1
        /\ outcomes[1].kind \in {"sqlerror", "exception"}) =>
        LET o == outcomes[1]
            r == result[1]
        IN  /\ ret.success = FALSE
            /\ ret.error # None
            /\ r.success = FALSE
            /\ r.error # None
            /\ Len(r.error[1]) > Len(o.msg)
            /\ SubSeq(r.error[1], Len(r.error[1]) - Len(o.msg) + 1, Len(r.error[1])) = o.msg
            /\ r.execution_time # None
            /\ r.data = None
            /\ r.columns = None
            /\ r.rows_affected = None

\* an exception that is no SQLAlchemyError has been captured into the result
C6_Witness ==
    /\ op = "execute_select_query"
    /\ Len(outcomes) = 1
    /\ outcomes[1].kind = "exception"
    /\ result[1].success = FALSE
    /\ result[1].error = Some(pUnexpectedError \o mPoolClosed)
    /\ result[1].execution_time # None

C8_SampledCountIsRowCount ==
    op = "get_sample_data" =>
        ret.sample_data[1].total_rows_sampled = Len(ret.sample_data[1].rows)

\* a sample of two rows counted as two
C8_Witness ==
    /\ op = "get_sample_data"
    /\ result[1].success
    /\ Len(ret.sample_data[1].rows) = 2
    /\ ret.sample_data[1].total_rows_sampled = 2

\* C9: when the sampling query fails, get_sample_data still returns (the
\* response is a success carrying a SampleData) and that SampleData names the
\* table asked for and has zero rows.
C9_FailedSampleIsEmpty ==
    (op = "get_sample_data" /\ ~result[1].success) =>
        /\ ret.success
        /\ ret.error = None
        /\ ret.sample_data # None
        /\ ret.sample_data[1].table_name = arg.table_name
        /\ ret.sample_data[1].rows = <<>>
        /\ ret.sample_data[1].total_rows_sampled = 0

\* an unknown table and a rejected negative limit have each given an empty sample
C9_Witness ==
    /\ op = "get_sample_data"
    /\ ~result[1].success
    /\ \/ arg.table_name = n_ghost /\ outcomes[1].msg = mNoRelation
       \/ arg.limit < 0 /\ outcomes[1].msg = mNegativeLimit
    /\ ret.sample_data[1].rows = <<>>

\* C10: when the sampling query succeeds, the SampleData carries the rows and
\* the column names of the QueryResult, also when there are zero rows.
C10_SampleCarriesRowsAndColumns ==
    (op = "get_sample_data" /\ result[1].success) =>
        /\ ret.sample_data[1].rows =
             (IF result[1].data = None THEN <<>> ELSE result[1].data[1])
        /\ ret.sample_data[1].columns =
             (IF result[1].columns = None THEN <<>> ELSE result[1].columns[1])

\* C11: the DatabaseSchema returned by get_database_schema has total_tables
\* equal to the number of entries of its tables mapping, for every list of
\* table names reported, repeated names included.
C11_TotalIsMappingSize ==
    (op = "get_database_overview" /\ ret.success) =>
        ret.db_schema[1].total_tables = Cardinality(DOMAIN ret.db_schema[1].tables)

\* C12: when the metadata fetch of a table fails during get_database_schema,
\* nothing is raised, every listed table is in the snapshot, a table whose
\* fetch failed has its name set and no columns, and the others have the
\* columns of the catalog.
C12_PartialFailureKeepsSnapshot ==
    (op = "get_database_overview" /\ ~outcomes[1].fail
        /\ \E i \in 1..Len(outcomes[2]) : outcomes[2][i].fail_at > 0) =>
        /\ ret.success
        /\ \A k \in Range(outcomes[1].tables) :
             LET i == LastIndex(outcomes[1].tables, k)
                 t == ret.db_schema[1].tables
             IN  /\ k \in DOMAIN t
                 /\ t[k].table_name # <<>>
                 /\ t[k].table_name = Strip(k)
                 /\ outcomes[2][i].fail_at > 0 => t[k].columns = <<>>
                 /\ outcomes[2][i].fail_at = 0 =>
                      Len(t[k].columns) = Len(Catalog[k].columns_info)

\* C13: when listing the tables fails, get_database_schema returns a
\* DatabaseSchema with the configured database name, no tables and a total of 0.
C13_ListingFailureIsZeroTables ==
    (op = "get_database_overview" /\ outcomes[1].fail) =>
        /\ ret.success
        /\ ret.db_schema # None
        /\ ret.db_schema[1].database_name = config_database
        /\ DOMAIN ret.db_schema[1].tables = {}
        /\ ret.db_schema[1].total_tables = 0

\* the listing failed and an empty snapshot of the database was returned
C13_Witness ==
    /\ op = "get_database_overview"
    /\ outcomes[1].fail
    /\ ret.success
    /\ ret.db_schema[1].database_name = config_database
    /\ ret.db_schema[1].total_tables = 0

\* C14: for a table with at least one column, the names in primary_keys are
\* exactly the names of the returned columns whose primary_key flag is true.
C14_PrimaryKeysAreFlaggedColumns ==
    (op = "get_table_schema" /\ ret.success
        /\ Len(ret.table_schema[1].columns) >= 1) =>
        LET ts == ret.table_schema[1] IN
        Range(ts.primary_keys) =
            { ts.columns[i].name : i \in { j \in 1..Len(ts.columns) :
                                             ts.columns[j].primary_key } }

\* C15: every ForeignKey of a returned TableSchema has as many referred
\* columns as constrained columns.
C15_ForeignKeyListsSameLength ==
    (op = "get_table_schema" /\ ret.success) =>
        \A i \in 1..Len(ret.table_schema[1].foreign_keys) :
            Len(ret.table_schema[1].foreign_keys[i].constrained_columns) =
                Len(ret.table_schema[1].foreign_keys[i].referred_columns)

\* the two-column foreign key of links has been returned
C15_Witness ==
    /\ op = "get_table_schema"
    /\ arg.table_name = n_links
    /\ ret.success
    /\ Len(ret.table_schema[1].foreign_keys) = 1
    /\ Len(ret.table_schema[1].foreign_keys[1].constrained_columns) = 2

\* C16: every ForeignKey returned has the constrained columns and the
\* referred columns the engine reported for it, in the same order, so that
\* constrained[i] still references referred[i]; when no fetch failed, every
\* foreign key the engine reported is returned.
C16_ForeignKeyPairingPreserved ==
    (op = "get_table_schema" /\ ret.success) =>
        LET fks == ret.table_schema[1].foreign_keys
            reported == outcomes[1].fk_info
        IN  /\ Len(fks) <= Len(reported)
            /\ outcomes[1].fail_at = 0 => Len(fks) = Len(reported)
            /\ \A i \in 1..Len(fks) :
                 /\ fks[i].referred_table = reported[i].referred_table
                 /\ Len(fks[i].constrained_columns) = Len(reported[i].constrained_columns)
                 /\ \A j \in 1..Len(fks[i].constrained_columns) :
                      /\ fks[i].constrained_columns[j] = reported[i].constrained_columns[j]
                      /\ fks[i].referred_columns[j] = reported[i].referred_columns[j]

\* links (user_id, name) -> users (id, name) came back pair by pair
C16_Witness ==
    /\ op = "get_table_schema"
    /\ arg.table_name = n_links
    /\ ret.success
    /\ Len(ret.table_schema[1].foreign_keys) = 1
    /\ ret.table_schema[1].foreign_keys[1].constrained_columns = <<n_user_id, n_name>>
    /\ ret.table_schema[1].foreign_keys[1].referred_columns = <<n_id, n_name>>

\* C17: for every table name, also one absent from the catalog,
\* get_table_schema raises nothing and returns a TableSchema whose table name
\* is set; for an absent table the column list is empty.
C17_SchemaForEveryName ==
    op = "get_table_schema" =>
        /\ ret.success
        /\ ret.table_schema # None
        /\ ret.table_schema[1].table_name # <<>>
        /\ arg.table_name \notin DOMAIN Catalog => ret.table_schema[1].columns = <<>>

\* C19: in get_table_statistics a failed row-count query does not fail the
\* operation and shows as "Unable to determine" in the report, and a table
\* that is not found ends the operation with the not-found result.
C19_CountFailureReported ==
    op = "get_table_statistics" =>
        /\ (Len(outcomes) = 1 /\ ~result[1].success) =>
             (ret.kind = "statistics" /\ ret.row_line.unable)
        /\ (arg.table_name \notin DOMAIN Catalog /\ Strip(arg.table_name) # <<>>) =>
             ret.kind = "not_found"

\* C20: list_databases returns the names of the databases that are not
\* templates, each once, in lexicographic order, and when the side connection
\* or the statement fails it raises nothing and returns the empty list.
C20_DatabasesSortedOrEmpty ==
    op = "list_databases" =>
        /\ ret.ok
        /\ outcomes[1].kind # "rows" => ret.val = <<>>
        /\ outcomes[1].kind = "rows" =>
             /\ Range(ret.val) =
                  { pg_database[i].datname :
                      i \in { j \in 1..Len(pg_database) : ~pg_database[j].datistemplate } }
             /\ \A i \in 1..(Len(ret.val) - 1) : TextLess(ret.val[i], ret.val[i + 1])

\* the five databases came back sorted, a prefix before its extension
C20_Witness ==
    /\ op = "list_databases"
    /\ dispatched = <<qListDatabases>>
    /\ ret.ok
    /\ ret.val = <<d_Zeta, d_analytics, d_postgres, d_shop, d_shop2>>

\* the side connection was refused and the list is empty
C20_WitnessRefused ==
    /\ op = "list_databases"
    /\ dispatched = <<>>
    /\ outcomes[1].kind = "exception"
    /\ ret.ok
    /\ ret.val = <<>>

\* C24: the suggestion never changes the outcome of a failed execution: the
\* response is a failure, its error text begins with the error text of the
\* gateway unchanged, and text follows it only when the gateway's text
\* mentions a column that does not exist and FROM <table> is found in the
\* statement, the text then being the suggestion naming that table.
C24_SuggestionOnlyAppended ==
    (op = "execute_select_query" /\ result # None /\ ~result[1].success) =>
        LET error_msg == result[1].error[1]
            shown == ret.error[1]
        IN  /\ ~ret.success
            /\ ret.result = None
            /\ Len(shown) >= Len(error_msg)
            /\ SubSeq(shown, 1, Len(error_msg)) = error_msg
            /\ Len(shown) > Len(error_msg) =>
                 /\ Contains(Lower(error_msg), sColumn)
                 /\ Contains(Lower(error_msg), sDoesNotExist)
                 /\ FromMatches(arg.sql_query) # {}
                 /\ SubSeq(shown, Len(error_msg) + 1, Len(shown)) =
                      sSuggestionHead \o TableMatch(arg.sql_query)[1] \o sSuggestionTail

\* an unknown column was reported and the suggestion follows the gateway's text
C24_Witness ==
    /\ op = "execute_select_query"
    /\ arg.sql_query = qUnknownColumn
    /\ result # None
    /\ ~result[1].success
    /\ ~ret.success
    /\ Len(ret.error[1]) > Len(result[1].error[1])

\* C28: every row record of a successful QueryResult has one entry for each
\* position of its column list, also when a column name occurs twice.
C28_RowHasEntryPerColumn ==
    (result # None /\ result[1].success /\ result[1].data # None) =>
        \A i \in 1..Len(result[1].data[1]) :
            Cardinality(DOMAIN result[1].data[1][i]) = Len(result[1].columns[1])

\* C29: when one of the four fetches of get_table_schema fails, or a column
\* cannot be constructed, the TableSchema returned has no columns, no primary
\* keys, no foreign keys and no indexes.
C29_SchemaAllOrNothing ==
    (op = "get_table_schema" /\ ret.success
        /\ \/ outcomes[1].fail_at > 0
           \/ \E i \in 1..Len(outcomes[1].columns_info) :
                  Strip(outcomes[1].columns_info[i].name) = <<>>) =>
        /\ ret.table_schema[1].columns = <<>>
        /\ ret.table_schema[1].primary_keys = <<>>
        /\ ret.table_schema[1].foreign_keys = <<>>
        /\ ret.table_schema[1].indexes = <<>>

\* the index fetch of links failed after its columns and foreign key were read
C29_Witness ==
    /\ op = "get_table_schema"
    /\ arg.table_name = n_links
    /\ outcomes[1].fail_at = 4
    /\ ret.success
    /\ ret.table_schema[1].columns = <<>>
    /\ ret.table_schema[1].foreign_keys = <<>>

\* the second column of odd could not be constructed and nothing was kept
C29_WitnessConstruction ==
    /\ op = "get_table_schema"
    /\ arg.table_name = n_odd
    /\ outcomes[1].fail_at = 0
    /\ ret.success
    /\ ret.table_schema[1].columns = <<>>
    /\ ret.table_schema[1].indexes = <<>>

\* C30: in the DatabaseSchema returned by get_database_schema every entry's
\* TableSchema has the table name it is stored under, also for names that
\* start or end with whitespace.
C30_EntryNameIsKey ==
    (op = "get_database_overview" /\ ret.success) =>
        \A k \in DOMAIN ret.db_schema[1].tables :
            ret.db_schema[1].tables[k].table_name = k

\* C23: constructing the ConnectionConfig succeeds exactly when the port
\* read from the environment lies in 1..65535: once the constructor has run,
\* the manager holds a config if and only if the port is in that range.
C23_ConfigBuiltIffPortInRange ==
    life # "unbuilt" =>
        ((heap # <<>>) <=> (IntValue(environ.POSTGRES_PORT) \in 1..65535))

\* the largest admissible port has been accepted and stored
C23_Witness ==
    /\ life = "configured"
    /\ environ.POSTGRES_PORT = p_65535
    /\ heap # <<>>
    /\ heap[1].port = 65535

\* port 0 has been refused: no config, no manager
C23_WitnessRefused ==
    /\ life = "failed"
    /\ environ.POSTGRES_PORT = p_0
    /\ heap = <<>>

\* C22: no step of any operation changes the manager's ConnectionConfig once
\* it is built, and every step of a list_databases call leaves the configured
\* database name and the main pool as they were.
C22_ConfigIsNeverChanged ==
    [][ /\ heap # <<>> => (heap' # <<>> /\ heap'[1] = heap[1])
        /\ \A c \in Callers :
              (calls[c].op = "list_databases" \/ calls'[c].op = "list_databases") =>
                  /\ heap'[1].database = heap[1].database
                  /\ conns' = conns ]_allvars

\* list_databases is at work on its copy, set to "postgres", while the
\* manager's own config still names the configured database
C22_Witness ==
    /\ calls[1].op = "list_databases"
    /\ calls[1].pc = "holding"
    /\ Len(heap) = 2
    /\ heap[1].database = d_shop
    /\ heap[2].database = d_postgres

\* C21: once close() has run, after any earlier operations (list_databases
\* among them), no connection the manager opened is still open: none of the
\* main pool and none of a pool list_databases created.
C21_NoConnectionOpenAfterClose ==
    life = "closed" =>
        /\ \A i \in DOMAIN conns : conns[i].state = "closed"
        /\ leaked = 0

\* C27: an introspection call that nothing interrupts returns what the catalog
\* holds when the call is made, whatever earlier calls read: list_tables the
\* live table names, get_table_schema and get_database_schema the live columns.
C27_IntrospectionReadsLiveCatalog ==
    \A c \in Callers :
        (calls[c].pc = "done" /\ UsesInspector(calls[c]) /\ ~calls[c].faulted) =>
            calls[c].result =
                Some(AloneResult([op |-> calls[c].op, arg |-> calls[c].arg],
                                 catalog, heap[1].database))

\* list_tables returned users and logs, logs was dropped, and the next
\* list_tables returns users alone
C27_Witness ==
    /\ calls[1].seen = Some(<<n_users, n_logs>>)
    /\ n_logs \notin DOMAIN catalog
    /\ calls[1].op = "list_tables"
    /\ calls[1].pc = "done"
    /\ ~calls[1].faulted
    /\ calls[1].result = Some(<<n_users>>)

\* a column of users was dropped and get_table_schema no longer has it
C27_WitnessColumn ==
    /\ catalog[n_users] = 1
    /\ calls[1].op = "get_table_schema"
    /\ calls[1].arg = n_users
    /\ calls[1].pc = "done"
    /\ ~calls[1].faulted
    /\ Len(calls[1].result[1].val.columns) = 1

\* C25: a connection is checked out only while the caller that borrowed it is
\* inside the with block of its statement, whether the statement succeeds or
\* fails; when no call is in flight, no connection is checked out.
C25_BorrowedConnectionIsReturned ==
    /\ \A i \in DOMAIN conns :
          conns[i].state = "out" =>
              \E c \in Callers : calls[c].pc = "holding" /\ calls[c].conn = i
    /\ \A c \in Callers : calls[c].pc # "holding" => calls[c].conn = 0
    /\ AllIdle => \A i \in DOMAIN conns : conns[i].state # "out"

\* a statement has failed on its connection and the connection is back in the
\* pool, while the other caller is in the middle of a call
C25_Witness ==
    /\ calls[1].op = "execute_query"
    /\ calls[1].pc = "done"
    /\ calls[1].faulted
    /\ calls[1].result[1].success = FALSE
    /\ calls[2].pc = "acquire"
    /\ \A i \in DOMAIN conns : conns[i].state = "idle"

\* the calls the claim C26 names
IsolatedOperations ==
    {"get_database_schema", "get_table_schema", "execute_query", "get_sample_data"}

====
